---------------------------- MODULE Spec2Model ----------------------------
(***************************************************************************)
(* Verification model of vulners-lookup.                                   *)
(*                                                                         *)
(*   RetrySpec    BackgroundService.fetchWithRetry: one call, its abort    *)
(*                and backoff timers, every outcome of every attempt.      *)
(*   CacheSpec    BackgroundService.fetchCVEData: the bulletin cache, the  *)
(*                clock, and requests that overlap.                        *)
(*   ScanSpec     DOMScanner: pattern loading, scans of a page, the        *)
(*                animation-frame, idle and intersection callbacks they    *)
(*                queue, and highlighting turned off and on.               *)
(*   MessageSpec  BackgroundService's message listener: one message, its   *)
(*                fetch, and the response sent (MessageFairSpec: with the  *)
(*                timers and promises that are bound to run).              *)
(*   TooltipSpec  TooltipManager: hovers over highlighted spans, the hide  *)
(*                timers, and the fetches the hovers wait for.             *)
(*   UtilSpec     detectBulletinType, escapeHtml and isVulnersHostname,    *)
(*                each applied to one string.                              *)
(*   HighlighterSpec  CVEHighlighter.init and its toggleHighlighting       *)
(*                listener on a page of some hostname.                     *)
(*   RaceSpec     DOMScanner on a page that removes or moves text nodes    *)
(*                between a match and the flush.                           *)
(*   CallerSpec   scanAndHighlight as its owner calls it, with what each   *)
(*                call returns.                                            *)
(*   StormSpec    detectMutationStorm over batches 0, 499 or 500 ms apart. *)
(*   DebounceSpec getAdaptiveDebounceMs over the lists of pending records  *)
(*                and recent batches.                                      *)
(*   PointerSpec  TooltipManager under a pointer that is in one place at   *)
(*                a time.                                                  *)
(*   HoverSpec    TooltipManager's own bulletin cache on a page that stays *)
(*                open for more than an hour.                              *)
(*   DrainSpec    DOMScanner's idle callbacks while highlighting stays on, *)
(*                with the idle time the browser grants in the end.        *)
(*                                                                         *)
(* Time is in milliseconds.  A timer is a record with the time left until  *)
(* it is due; a due timer's callback runs before time passes further.      *)
(***************************************************************************)
EXTENDS Integers, Sequences, FiniteSets, TLC

VARIABLES
    \* ---- BackgroundService.fetchWithRetry (one call) ----
    maxRetries,     \* the maxRetries argument
    attempt,        \* the loop variable i
    retryPc,        \* "idle" | "fetch" | "sleep" | "returned" | "thrown"
    lastError,      \* the local lastError
    retryResult,    \* status of the returned response (0: none)
    thrownError,    \* the error the call rejected with
    timers,         \* armed timers: [kind, attempt, left]
    abortedCtl,     \* controllers (one per attempt) whose abort() has run
    elapsed,        \* ms since the pending await (fetch or sleep) began
    attemptLog,     \* history: one record per settled attempt
    fetchCalls,     \* history: number of fetch() calls made
    \* ---- BackgroundService: cveCache and fetch-bulletin-data requests ----
    cveCache,       \* Map<string, CachedCVEData>: key -> NoEntry | [data, timestamp]
    now,            \* Date.now()
    clockAdvances,  \* number of clock steps taken (bounded)
    reqs,           \* the fetchCVEData messages handled so far, in arrival order
    serverSeq,      \* serial number of the last record the API served
    \* ---- DOMScanner: patterns ----
    patterns,       \* RegExp[]
    combinedPattern, \* RegExp | null
    patternsLoaded,
    \* ---- the page ----
    dom,            \* element -> its child nodes, in order
    inViewport,     \* the elements isElementInViewport holds for
    patternsResponse, \* what the Background Service answers to fetchPatterns
    \* ---- DOMScanner: scan state ----
    processedNodes,
    highlightedBulletins,
    bulletinTypeCounts,
    pendingHighlights,  \* [parent, oldNode, fragment]
    visits,         \* history: node -> what highlightCVEsInNode did on it since
                    \* processedNodes was last reset: [count, again, candidates,
                    \* found, retained, markers, queued]
    \* ---- DOMScanner: scheduled work ----
    highlightFlushScheduled,
    rafQueue,       \* requestAnimationFrame callbacks not yet run, oldest first
    idleCallbacks,  \* the node lists of the requestIdleCallback callbacks not
                    \* yet run, oldest first
    idleCallbackId, \* NoIdleCallback, or the position in idleCallbacks of the
                    \* callback whose id it holds (RanIdleCallback: it has run)
    visibilityObserver, \* TRUE when the IntersectionObserver exists
    observed,       \* the elements it observes
    pendingOffscreenElements, \* element -> its queued text nodes (<<>>: no entry)
    \* ---- the owner of the scanner and the extension badge ----
    badge,          \* count of the last updateBadge message (-1: none sent)
    enabled,        \* the highlighting toggle
    toggles,        \* number of times highlighting was turned off (bounded)
    \* ---- BackgroundService: the runtime.onMessage listener, one message ----
    msg,            \* the message and its sender: [action, cveId, count, tab]
    msgPc,          \* "none" | "fetching" | "answered" | "returned"
    keepsChannel,   \* the listener returned true (it will respond later)
    responses,      \* the arguments sendResponse was called with, in order
    badgeText,      \* tab -> the text of its last setBadgeText call
    \* ---- TooltipManager ----
    tooltip,        \* TRUE when the tooltip element exists
    tooltipHtml,    \* tooltip.innerHTML: [kind, element, data]
    tooltipDisplay, \* tooltip.style.display
    currentHighlightedElement,
    hideTimers,     \* hide timers still set whose id is no longer held
    hideTooltipTimeout, \* TRUE when the timer whose id it holds is still set
    cveDataCache,   \* Map<string, CVEData>: bulletin id -> record or NoRecord
    hovers,         \* the showTooltip calls awaiting fetchBulletinData
    lastSettled,    \* history: the last fetchBulletinData that settled
    \* ---- one call of a function of utils.ts or content/utils.ts ----
    utilInput,      \* the string argument
    utilCall,       \* the function applied ("none": not yet)
    utilOutput,     \* what it returned
    \* ---- CVEHighlighter (content.ts): the site check and the enabled flag ----
    locationHostname,       \* window.location.hostname
    storedEnabled,  \* the enabled entry of chrome.storage.local
    highlighterEnabled, \* this.enabled
    highlighterPc,  \* "constructed" | "listening" (init has completed)
    highlighterPatternsLoaded,
    loadsPending,   \* loadPatterns().then(scanAndHighlight) chains still running
    lastHighlight,  \* what last wrote highlights since they were last removed:
                    \* "none" | "scanAndHighlight" | "highlightCVEsInNode"
    scanCount,      \* the scanCount of setupPeriodicScan
    periodicScan,   \* TRUE while the timer of setupPeriodicScan is set
    observing,      \* TRUE once observePageChanges has installed its observer
    lastRequest,    \* history: the enabled value of the last toggleHighlighting
    highlighterToggles, \* number of toggleHighlighting messages handled
    \* ---- the owner of the scanner: what scanAndHighlight returned ----
    scanResult,     \* NoResult, or [isProcessing, needsRescan] of the last call
    \* ---- DOMScanner: the mutation bookkeeping ----
    mutationTimestamps, \* the Date.now() of the batches still in the window
    pendingMutations,   \* pendingMutations.length
    dateNow,        \* Date.now()
    batchLog,       \* history: the Date.now() of every detectMutationStorm call
    stormDetected,  \* "none", or what the last detectMutationStorm returned:
                    \* "storm" | "calm"
    debounceMs,     \* what getAdaptiveDebounceMs returned for the lists as they
                    \* are (NoDebounce: not called since they last changed)
    \* ---- the page's user ----
    pointer,        \* where the mouse pointer is: "page", a span, "entering"
                    \* (between a span's mouseleave and the tooltip's
                    \* mouseenter), or "panel" (on the tooltip)
    \* ---- the age of what the tooltip shows ----
    pageClock,      \* Date.now() of the page
    fetchedAt,      \* history: bulletin id -> pageClock when its record was
                    \* put into cveDataCache
    shownAge        \* history: the age of the record the last hover took from
                    \* cveDataCache (0: none yet)

retryVars == <<maxRetries, attempt, retryPc, lastError, retryResult, thrownError,
               timers, abortedCtl, elapsed, attemptLog, fetchCalls>>

cacheVars == <<cveCache, now, clockAdvances, reqs, serverSeq>>

patternVars == <<patterns, combinedPattern, patternsLoaded>>

domVars == <<dom, inViewport, patternsResponse>>

workVars == <<processedNodes, highlightedBulletins, bulletinTypeCounts,
              pendingHighlights, visits>>

queueVars == <<highlightFlushScheduled, rafQueue, idleCallbacks, idleCallbackId,
               visibilityObserver, observed, pendingOffscreenElements>>

callerVars == <<badge, enabled, toggles>>

scanVars == <<patternVars, domVars, workVars, queueVars, callerVars>>

messageVars == <<msg, msgPc, keepsChannel, responses, badgeText>>

tooltipVars == <<tooltip, tooltipHtml, tooltipDisplay, currentHighlightedElement,
                 hideTimers, hideTooltipTimeout, cveDataCache, hovers, lastSettled>>

utilVars == <<utilInput, utilCall, utilOutput>>

highlighterVars == <<locationHostname, storedEnabled, highlighterEnabled, highlighterPc,
                     highlighterPatternsLoaded, loadsPending, lastHighlight, scanCount,
                     periodicScan, observing, lastRequest, highlighterToggles>>

resultVars == <<scanResult>>

mutationVars == <<mutationTimestamps, pendingMutations, dateNow, batchLog,
                  stormDetected, debounceMs>>

pointerVars == <<pointer>>

hoverVars == <<pageClock, fetchedAt, shownAge>>

vars == <<retryVars, cacheVars, scanVars, messageVars, tooltipVars, utilVars,
          highlighterVars, resultVars, mutationVars, pointerVars, hoverVars>>

\* what the actions of each part of the model leave alone
outsideRetry == <<cacheVars, scanVars, messageVars, tooltipVars, utilVars,
                  highlighterVars, resultVars, mutationVars, pointerVars,
        hoverVars>>

outsideCache == <<retryVars, scanVars, messageVars, tooltipVars, utilVars,
                  highlighterVars, resultVars, mutationVars, pointerVars,
        hoverVars>>

outsideScan == <<retryVars, cacheVars, messageVars, tooltipVars, utilVars,
                 highlighterVars, resultVars, mutationVars, pointerVars,
        hoverVars>>

outsideMessage == <<scanVars, tooltipVars, utilVars,
                    highlighterVars, resultVars, mutationVars, pointerVars,
        hoverVars>>

outsideTooltip == <<retryVars, cacheVars, scanVars, messageVars, utilVars,
                    highlighterVars, resultVars, mutationVars, pointerVars,
        hoverVars>>

outsideUtil == <<retryVars, cacheVars, scanVars, messageVars, tooltipVars,
                highlighterVars, resultVars, mutationVars, pointerVars,
        hoverVars>>

outsideHighlighter == <<retryVars, cacheVars, scanVars, messageVars, tooltipVars,
                       utilVars, resultVars, mutationVars, pointerVars,
        hoverVars>>

outsideCaller == <<retryVars, cacheVars, messageVars, tooltipVars, utilVars,
                   highlighterVars, mutationVars, pointerVars,
        hoverVars>>

outsidePointer == <<retryVars, cacheVars, scanVars, messageVars, utilVars,
                    highlighterVars, resultVars, mutationVars, hoverVars>>

outsideHover == <<retryVars, cacheVars, scanVars, messageVars, utilVars,
                  highlighterVars, resultVars, mutationVars, pointerVars>>

outsideMutation == <<retryVars, cacheVars, scanVars, messageVars, tooltipVars,
                     utilVars, highlighterVars, resultVars, pointerVars,
        hoverVars>>

--------------------------------------------------------------------------
(* Bounds of the model *)

\* largest pageClock of the hover model: one ms past the cache's expiry
MaxPageClock == 3600001

\* largest Date.now() of the mutation model
MaxDateNow == 999

\* number of detectMutationStorm calls in one behaviour
MaxBatches == 52

\* largest number of records in pendingMutations
MaxPendingRecords == 21

\* largest maxRetries argument tried
MaxAttemptsArg == 3

\* a latency after which a pending fetch may settle before its timeout
LatencyMs == 4000

\* number of fetch-bulletin-data messages handled in one behaviour
MaxRequests == 2

\* number of clock steps in one behaviour of the cache model
MaxClockAdvances == 2

\* number of callbacks of one kind (animation frame, idle) that may be
\* waiting when the owner of the scanner starts another scan
MaxQueued == 1

\* number of times highlighting is turned off in one behaviour
MaxToggles == 1

\* largest count of an update-badge message
MaxCount == 101

\* showTooltip calls that may wait for their fetch at one time
MaxPending == 2

\* hide timers that may be set at one time beside the one whose id is held
MaxTimers == 1

\* length of the longest string escapeHtml is applied to
MaxTextLen == 3

\* toggleHighlighting messages the highlighter of a page receives
MaxToggleMessages == 2

\* content.ts setupPeriodicScan: maxScans
maxScans == 10

(* Program constants *)

MAX_RETRIES == 3

FETCH_TIMEOUT_MS == 10000

CACHE_EXPIRY_MS == 3600000

\* HTTP statuses an attempt may yield: success, redirect-like, client and
\* server errors
Statuses == {200, 302, 404, 500, 503}

--------------------------------------------------------------------------
(* fetchWithRetry *)

NoError == [kind |-> "none", status |-> 0]

ServerError(status) == [kind |-> "server", status |-> status]

TimeoutError == [kind |-> "timeout", status |-> 0]

NetworkError == [kind |-> "network", status |-> 0]

GenericError == [kind |-> "generic", status |-> 0]

RECURSIVE Pow2(_)
Pow2(n) == IF n = 0 THEN 1 ELSE 2 * Pow2(n - 1)

\* response.ok
ResponseOk(status) == status >= 200 /\ status <= 299

ResponseActionMutant(status) ==
    IF ResponseOk(status) THEN "return"
    ELSE IF status >= 400 THEN "retry"
    ELSE "return"

\* lines 181-201: success or client error (4xx) returns immediately, a server
\* error (5xx) is retried, any other response is returned
ResponseAction(status) ==
    IF ResponseOk(status) \/ (status >= 400 /\ status < 500) THEN "return"
    ELSE IF status >= 500 THEN "retry"
    ELSE "return"

BackoffMsMutant(i) == 1000

\* Math.pow(2, i) * 1000
BackoffMs(i) == Pow2(i) * 1000

NeedsBackoffMutant(i, max) == TRUE

\* lines 193 and 219: no wait after the last allowed attempt
NeedsBackoff(i, max) == i < max - 1

AbortTimer(i) == [kind |-> "abort", attempt |-> i, left |-> FETCH_TIMEOUT_MS]

BackoffTimer(i) == [kind |-> "backoff", attempt |-> i, left |-> BackoffMs(i)]

ClearAbortTimerMutant(ts, i) == ts

\* clearTimeout(timeoutId) of attempt i
ClearAbortTimer(ts, i) == {t \in ts : ~(t.kind = "abort" /\ t.attempt = i)}

\* the error a rejected fetch leaves in lastError (lines 205-216)
CaughtErrorMutant(isAbort, prev) ==
    IF prev.kind # "none" THEN prev
    ELSE IF isAbort THEN TimeoutError ELSE NetworkError

CaughtError(isAbort, prev) == IF isAbort THEN TimeoutError ELSE NetworkError

\* lines 169-177: the loop test, then a new controller, its timer and fetch()
StartAttempt(i, ts) ==
    IF i < maxRetries
    THEN /\ attempt' = i
         /\ retryPc' = "fetch"
         /\ timers' = ts \cup {AbortTimer(i)}
         /\ elapsed' = 0
         /\ fetchCalls' = fetchCalls + 1
         /\ UNCHANGED thrownError
    ELSE \* line 227
         /\ attempt' = i
         /\ retryPc' = "thrown"
         /\ timers' = ts
         /\ elapsed' = 0
         /\ thrownError' = IF lastError' # NoError THEN lastError' ELSE GenericError
         /\ UNCHANGED fetchCalls

\* after a failed attempt i: backoff, or straight on to the loop test
AfterFailure(i, ts) ==
    IF NeedsBackoff(i, maxRetries)
    THEN /\ retryPc' = "sleep"
         /\ timers' = ts \cup {BackoffTimer(i)}
         /\ elapsed' = 0
         /\ UNCHANGED <<attempt, fetchCalls, thrownError>>
    ELSE StartAttempt(i + 1, ts)

\* history record of a settled attempt: what it yielded, the error kept, the
\* backoff requested, how long the attempt took, the controller whose abort
\* ended it (-1: none) and the time slept before the next attempt (-1: none)
LogEntry(kind, status, err, wait, age, by) ==
    [kind |-> kind, status |-> status, error |-> err, wait |-> wait,
     age |-> age, abortedBy |-> by, slept |-> -1]

WaitAfter(i) == IF NeedsBackoff(i, maxRetries) THEN BackoffMs(i) ELSE 0

\* fetchWithRetry(url, options, maxRetries) is called
Call ==
    /\ retryPc = "idle"
    /\ lastError' = NoError
    /\ StartAttempt(0, timers)
    /\ UNCHANGED <<maxRetries, retryResult, abortedCtl, attemptLog>>

\* the pending fetch resolves with a response (lines 174-201)
FetchResolves(status) ==
    /\ retryPc = "fetch"
    /\ attempt \notin abortedCtl
    /\ LET ts == ClearAbortTimer(timers, attempt) IN
       IF ResponseAction(status) = "return"
       THEN /\ retryPc' = "returned"
            /\ retryResult' = status
            /\ timers' = ts
            /\ attemptLog' = Append(attemptLog,
                   LogEntry("response", status, NoError, 0, elapsed, -1))
            /\ UNCHANGED <<attempt, lastError, thrownError, elapsed, fetchCalls>>
       ELSE /\ lastError' = ServerError(status)
            /\ attemptLog' = Append(attemptLog,
                   LogEntry("response", status, ServerError(status),
                            WaitAfter(attempt), elapsed, -1))
            /\ AfterFailure(attempt, ts)
            /\ UNCHANGED retryResult
    /\ UNCHANGED <<maxRetries, abortedCtl>>

\* the pending fetch rejects with a network-level failure (lines 202-224)
FetchRejects ==
    /\ retryPc = "fetch"
    /\ attempt \notin abortedCtl
    /\ lastError' = CaughtError(FALSE, lastError)
    /\ attemptLog' = Append(attemptLog,
           LogEntry("network", 0, lastError', WaitAfter(attempt), elapsed, -1))
    /\ AfterFailure(attempt, ClearAbortTimer(timers, attempt))
    /\ UNCHANGED <<maxRetries, retryResult, abortedCtl>>

\* a due abort timer runs controller.abort() (line 171); a fetch pending on
\* that controller's signal rejects with AbortError (lines 202-224)
AbortTimerFires ==
    \E t \in timers :
        /\ t.kind = "abort" /\ t.left = 0
        /\ abortedCtl' = abortedCtl \cup {t.attempt}
        /\ IF retryPc = "fetch" /\ attempt = t.attempt
           THEN /\ lastError' = CaughtError(TRUE, lastError)
                /\ attemptLog' = Append(attemptLog,
                       LogEntry("timeout", 0, lastError', WaitAfter(attempt),
                                elapsed, t.attempt))
                /\ AfterFailure(attempt, ClearAbortTimer(timers \ {t}, attempt))
           ELSE /\ timers' = timers \ {t}
                /\ UNCHANGED <<attempt, retryPc, lastError, thrownError,
                               elapsed, attemptLog, fetchCalls>>
        /\ UNCHANGED <<maxRetries, retryResult>>

\* the backoff sleep ends (lines 194-198, 220-222): i++ and the loop test
BackoffFires ==
    \E t \in timers :
        /\ t.kind = "backoff" /\ t.left = 0
        /\ retryPc = "sleep"
        /\ lastError' = lastError
        /\ attemptLog' = [attemptLog EXCEPT ![Len(attemptLog)].slept = elapsed]
        /\ StartAttempt(attempt + 1, timers \ {t})
        /\ UNCHANGED <<maxRetries, retryResult, abortedCtl>>

MinLeft == CHOOSE m \in {t.left : t \in timers} :
               \A t \in timers : m <= t.left

\* time passes, up to the next timer that is due
Advance ==
    /\ timers # {}
    /\ \A t \in timers : t.left > 0
    /\ \E d \in {MinLeft} \cup
                (IF retryPc = "fetch" /\ LatencyMs < MinLeft THEN {LatencyMs} ELSE {}) :
        /\ timers' = {[t EXCEPT !.left = t.left - d] : t \in timers}
        /\ elapsed' = elapsed + d
    /\ UNCHANGED <<maxRetries, attempt, retryPc, lastError, retryResult,
                   thrownError, abortedCtl, attemptLog, fetchCalls>>

--------------------------------------------------------------------------
(* BackgroundService: fetchCVEData, fetchFromAPI and the cveCache.         *)
(* Each handled message is a record of reqs.  Its handler reads the cache   *)
(* when the message arrives and writes it when fetchFromAPI has returned;  *)
(* how long the attempts, the backoffs and the read of the body take is    *)
(* left open.                                                              *)

\* identifiers requested: two spellings, hence two cache keys
CveIds == {"CVE-1", "cve-1"}

\* cveId.toUpperCase()
ToUpperCase(id) == IF id = "cve-1" THEN "CVE-1" ELSE id

\* no record (an absent map entry, a response not yet sent)
NoData == [id |-> "", status |-> "", sources |-> <<>>, serial |-> -1]

\* cveCache.get(key) === undefined
NoEntry == [data |-> NoData, timestamp |-> -1]

\* processVulnersData: the record made of the document the API served
\* (doc.id || cveId; the serial tells one served document from another)
ProcessVulnersData(cveId, serial) ==
    [id |-> ToUpperCase(cveId), status |-> "Published", sources |-> <<"vulners.com">>,
     serial |-> serial]

NotAvailableMutant(cveId) ==
    [id |-> cveId, status |-> "Error", sources |-> <<>>, serial |-> 0]

\* lines 140-147: the record answered when fetchFromAPI returned null
NotAvailable(cveId) ==
    [id |-> cveId, status |-> "Unknown", sources |-> <<>>, serial |-> 0]

CacheIsFreshMutant(entry, t) ==
    entry # NoEntry /\ t - entry.timestamp <= CACHE_EXPIRY_MS

CacheIsFreshInverted(entry, t) ==
    entry # NoEntry /\ t - entry.timestamp > CACHE_EXPIRY_MS

\* line 125: cached && Date.now() - cached.timestamp < CACHE_EXPIRY_MS
CacheIsFresh(entry, t) ==
    entry # NoEntry /\ t - entry.timestamp < CACHE_EXPIRY_MS

CacheKeyMutant(cveId) == ToUpperCase(cveId)

\* lines 124 and 133: the cache is keyed by the cveId of the message
CacheKey(cveId) == cveId

CacheEntryMutant(previous, data, t) ==
    [data |-> data,
     timestamp |-> IF previous = NoEntry THEN t ELSE previous.timestamp]

\* lines 133-136: the entry cveCache.set puts in the place of the previous
\* one
CacheEntry(previous, data, t) == [data |-> data, timestamp |-> t]

EntryAfterHitMutant(entry, t) == [entry EXCEPT !.timestamp = t]

\* lines 125-127: a hit returns cached.data and writes nothing
EntryAfterHit(entry, t) == entry

Done(r) == {k \in 1..Len(reqs) : reqs[k].pc = "done"}

\* a handled message: its identifier, where its handler stands ("fetch":
\* awaiting fetchFromAPI, "done": answered), and history: when it arrived,
\* the cache entry it found, the requests answered before it, the number of
\* fetchFromAPI calls it made (the only caller of fetch() on this path), its
\* response, and the entry it stored
NewRequest(cveId) ==
    [cveId |-> cveId, pc |-> "fetch",
     arrivedAt |-> now, sawEntry |-> cveCache[CacheKey(cveId)],
     doneBefore |-> Done(reqs),
     fetches |-> 0,
     response |-> NoData, stored |-> NoEntry]

\* lines 41-50 and 122-131: the message is answered from the cache, or
\* fetchFromAPI starts the first attempt of fetchWithRetry
HandleFetchCVEData(cveId) ==
    /\ Len(reqs) < MaxRequests
    /\ LET r == NewRequest(cveId) IN
       IF CacheIsFresh(r.sawEntry, now)
       THEN /\ reqs' = Append(reqs, [r EXCEPT !.pc = "done",
                                               !.response = r.sawEntry.data])
            /\ cveCache' = [cveCache EXCEPT ![CacheKey(cveId)] = EntryAfterHit(@, now)]
       ELSE /\ reqs' = Append(reqs, [r EXCEPT !.fetches = 1])
            /\ UNCHANGED cveCache
    /\ UNCHANGED <<now, clockAdvances, serverSeq>>

\* what one attempt of fetchWithRetry may yield: a response status, or a
\* rejection (network failure or timeout)
AttemptOutcomes == {200, 404, 500, -1}

FetchWithRetryRunMutant(outs, i) ==
    IF i >= MAX_RETRIES
    THEN [status |-> -1, calls |-> i]
    ELSE [status |-> 200, calls |-> i + 1]

\* lines 169-227: the loop of fetchWithRetry from iteration i on, given what
\* each attempt yields: the status returned (-1: it throws) and the number
\* of fetch() calls made
RECURSIVE FetchWithRetryRun(_, _)
FetchWithRetryRun(outs, i) ==
    IF i >= MAX_RETRIES
    THEN [status |-> -1, calls |-> i]
    ELSE IF outs[i + 1] # -1 /\ ResponseAction(outs[i + 1]) = "return"
         THEN [status |-> outs[i + 1], calls |-> i + 1]
         ELSE FetchWithRetryRun(outs, i + 1)

\* every way fetchWithRetry(url, options, MAX_RETRIES) can end
RetryRuns ==
    {FetchWithRetryRun(outs, 0) : outs \in [1..MAX_RETRIES -> AttemptOutcomes]}

\* lines 230-264: fetchFromAPI yields a record only for a response that is
\* ok and whose body carries a result
ApiYieldsRecord(run, hasResult) == ResponseOk(run.status) /\ hasResult

\* the awaited fetchFromAPI of request k returns (lines 131-147): a record is
\* stored in the cache and answered, null is answered by the fallback.  The
\* awaits of the retry loop and of response.json() touch nothing shared, so
\* they are taken in one step; the time they take passes before it.
FetchFromAPIReturns(k, run, hasResult) ==
    /\ k \in 1..Len(reqs) /\ reqs[k].pc = "fetch"
    /\ LET id == reqs[k].cveId IN
       IF ApiYieldsRecord(run, hasResult)
       THEN LET entry == CacheEntry(cveCache[CacheKey(id)],
                                    ProcessVulnersData(id, serverSeq + 1), now) IN
            /\ serverSeq' = serverSeq + 1
            /\ cveCache' = [cveCache EXCEPT ![CacheKey(id)] = entry]
            /\ reqs' = [reqs EXCEPT ![k].pc = "done",
                                    ![k].response = entry.data,
                                    ![k].stored = entry]
       ELSE /\ reqs' = [reqs EXCEPT ![k].pc = "done",
                                    ![k].response = NotAvailable(id)]
            /\ UNCHANGED <<cveCache, serverSeq>>
    /\ UNCHANGED <<now, clockAdvances>>

\* the clock steps: by one millisecond, or to one millisecond before a full
\* cache lifetime has passed
ClockSteps == {1, CACHE_EXPIRY_MS - 1}

Tick(d) ==
    /\ clockAdvances < MaxClockAdvances
    /\ now' = now + d
    /\ clockAdvances' = clockAdvances + 1
    /\ UNCHANGED <<cveCache, reqs, serverSeq>>


--------------------------------------------------------------------------
(* Strings of the content script.  A string is the sequence of its        *)
(* characters, so that offsets, substrings and letter case are computed.  *)

LowerLetters == <<"a", "b", "c", "d", "e", "f", "g", "h", "i", "j", "k", "l", "m",
                  "n", "o", "p", "q", "r", "s", "t", "u", "v", "w", "x", "y", "z">>

UpperLetters == <<"A", "B", "C", "D", "E", "F", "G", "H", "I", "J", "K", "L", "M",
                  "N", "O", "P", "Q", "R", "S", "T", "U", "V", "W", "X", "Y", "Z">>

DigitChars == {"0", "1", "2", "3", "4", "5", "6", "7", "8", "9"}

\* String.prototype.toUpperCase, one character
UpperChar(c) ==
    IF \E k \in 1..Len(LowerLetters) : LowerLetters[k] = c
    THEN UpperLetters[CHOOSE k \in 1..Len(LowerLetters) : LowerLetters[k] = c]
    ELSE c

\* String.prototype.toUpperCase
UpperCased(s) == [k \in 1..Len(s) |-> UpperChar(s[k])]

\* String.prototype.startsWith
StartsWith(s, prefix) ==
    /\ Len(prefix) <= Len(s)
    /\ SubSeq(s, 1, Len(prefix)) = prefix

\* String.prototype.includes
Includes(s, part) ==
    \E k \in 1..(Len(s) - Len(part) + 1) : SubSeq(s, k, k + Len(part) - 1) = part

\* String.prototype.substring(from, to), offsets counted from 0
Substring(s, from, to) == SubSeq(s, from + 1, to)

\* content/constants.ts BULLETIN_TYPE_MAP, in its order
BULLETIN_TYPE_MAP == <<
    <<<<"C", "V", "E", "-">>, "cve">>,
    <<<<"C", "A", "N", "-">>, "cve">>,
    <<<<"E", "D", "B", "-", "I", "D">>, "exploit">>,
    <<<<"E", "D", "B", "I", "D">>, "exploit">>,
    <<<<"P", "A", "C", "K", "E", "T", "S", "T", "O", "R", "M", ":">>, "exploit">>,
    <<<<"Z", "D", "I", "-">>, "exploit">>,
    <<<<"R", "H", "S", "A", "-">>, "advisory">>,
    <<<<"R", "H", "B", "A", "-">>, "advisory">>,
    <<<<"C", "E", "S", "A", "-">>, "advisory">>,
    <<<<"E", "L", "S", "A", "-">>, "advisory">>,
    <<<<"A", "L", "A", "S", "-">>, "advisory">>,
    <<<<"D", "S", "A", "-">>, "advisory">>,
    <<<<"D", "L", "A", "-">>, "advisory">>,
    <<<<"U", "S", "N", "-">>, "advisory">>,
    <<<<"F", "E", "D", "O", "R", "A", "-">>, "advisory">>,
    <<<<"G", "L", "S", "A", "-">>, "advisory">>,
    <<<<"G", "H", "S", "A", "-">>, "advisory">>,
    <<<<"I", "C", "S", "A", "-">>, "advisory">>,
    <<<<"I", "C", "S", "-", "A", "L", "E", "R", "T", "-">>, "advisory">>,
    <<<<"V", "M", "S", "A", "-">>, "advisory">>,
    <<<<"A", "P", "P", "L", "E", "-", "S", "A", "-">>, "advisory">>,
    <<<<"A", "P", "S", "B">>, "advisory">>,
    <<<<"T", "A", "L", "O", "S", "-">>, "advisory">>,
    <<<<"J", "V", "N", "D", "B", "-">>, "advisory">>,
    <<<<"J", "V", "N", "#">>, "advisory">>,
    <<<<"J", "S", "A">>, "advisory">>,
    <<<<"V", "U", "#">>, "advisory">>,
    <<<<"A", "A">>, "advisory">>,
    <<<<"T", "A">>, "advisory">>,
    <<<<"C", "N", "V", "D", "-">>, "advisory">>,
    <<<<"C", "N", "N", "V", "D", "-">>, "advisory">>,
    <<<<"E", "U", "V", "U", "-">>, "advisory">>,
    <<<<"E", "U", "V", "D", "-">>, "advisory">>,
    <<<<"K", "B">>, "advisory">>,
    <<<<"M", "S">>, "advisory">> >>

RECURSIVE FirstPrefixType(_, _)
\* the loop of detectBulletinType over BULLETIN_TYPE_MAP, from entry k on
FirstPrefixType(upperId, k) ==
    IF k > Len(BULLETIN_TYPE_MAP) THEN "cve"
    ELSE IF StartsWith(upperId, UpperCased(BULLETIN_TYPE_MAP[k][1]))
         THEN BULLETIN_TYPE_MAP[k][2]
         ELSE FirstPrefixType(upperId, k + 1)

\* content/utils.ts detectBulletinType
detectBulletinTypeMutant(id) == FirstPrefixType(id, 1)

detectBulletinType(id) ==
    LET upperId == UpperCased(id) IN
    IF StartsWith(upperId, <<"E", "D", "B">>) /\ Includes(upperId, <<"I", "D">>)
    THEN "exploit"
    ELSE FirstPrefixType(upperId, 1)

BulletinTypes == {"cve", "advisory", "exploit"}

\* String.prototype.toLowerCase, one character
LowerChar(c) ==
    IF \E k \in 1..Len(UpperLetters) : UpperLetters[k] = c
    THEN LowerLetters[CHOOSE k \in 1..Len(UpperLetters) : UpperLetters[k] = c]
    ELSE c

\* String.prototype.toLowerCase
LowerCased(s) == [k \in 1..Len(s) |-> LowerChar(s[k])]

\* String.prototype.endsWith
EndsWith(s, suffix) ==
    /\ Len(suffix) <= Len(s)
    /\ SubSeq(s, Len(s) - Len(suffix) + 1, Len(s)) = suffix

VulnersCom == <<"v", "u", "l", "n", "e", "r", "s", ".", "c", "o", "m">>

\* utils.ts isVulnersHostname
isVulnersHostnameMutant(hostname) ==
    LET lowerHostname == LowerCased(hostname) IN
    \/ lowerHostname = VulnersCom
    \/ EndsWith(lowerHostname, VulnersCom)
    \/ lowerHostname = <<"w", "w", "w", ".">> \o VulnersCom

isVulnersHostname(hostname) ==
    LET lowerHostname == LowerCased(hostname) IN
    \/ lowerHostname = VulnersCom
    \/ EndsWith(lowerHostname, <<".">> \o VulnersCom)
    \/ lowerHostname = <<"w", "w", "w", ".">> \o VulnersCom

\* htmlEscapeMap of escapeHtml, for the characters /[&<>"']/ matches
htmlEscapeMap(char) ==
    CASE char = "&" -> <<"&", "a", "m", "p", ";">>
      [] char = "<" -> <<"&", "l", "t", ";">>
      [] char = ">" -> <<"&", "g", "t", ";">>
      [] char = "\"" -> <<"&", "q", "u", "o", "t", ";">>
      [] char = "'" -> <<"&", "#", "3", "9", ";">>

\* the characters the class [&<>"'] of escapeHtml matches
EscapedCharsMutant == {"&", "<", ">", "\""}

EscapedChars == {"&", "<", ">", "\"", "'"}

RECURSIVE escapeHtml(_)
\* utils.ts escapeHtml: str.replace(/[&<>"']/g, char => htmlEscapeMap[char])
escapeHtml(str) ==
    IF str = <<>> THEN <<>>
    ELSE (IF Head(str) \in EscapedChars THEN htmlEscapeMap(Head(str))
          ELSE <<Head(str)>>) \o escapeHtml(Tail(str))

--------------------------------------------------------------------------
(* Regular expressions of the content script.  A pattern source is a      *)
(* sequence of items, each a literal character or \d{min,max}; a RegExp   *)
(* is an alternation of sources with its g and i flags.  \d{min,max} is   *)
(* matched greedily; none of the sources used here follows it by a digit, *)
(* so no backtracking is needed.  No source matches the empty string.     *)

Lit(c) == [kind |-> "lit", ch |-> c, min |-> 1, max |-> 1]

DigitsItem(min, max) == [kind |-> "digits", ch |-> "", min |-> min, max |-> max]

Literal(s) == [k \in 1..Len(s) |-> Lit(s[k])]

RegExp(alts, global, ignoreCase) ==
    [alts |-> alts, global |-> global, ignoreCase |-> ignoreCase]

\* a RegExp | null that is null
NullPattern == RegExp(<<>>, FALSE, FALSE)

\* the result of exec() that is null
NoMatch == [index |-> -1, end |-> -1]

\* /CVE-\d{4}-\d{4,7}/gi
CVE_PATTERN ==
    RegExp(<< Literal(<<"C", "V", "E", "-">>) \o <<DigitsItem(4, 4), Lit("-"),
                                                  DigitsItem(4, 7)>> >>,
           TRUE, TRUE)

RECURSIVE DigitRun(_, _, _)
\* number of digits of text from offset pos on, at most max
DigitRun(text, pos, max) ==
    IF max = 0 \/ pos >= Len(text) \/ text[pos + 1] \notin DigitChars THEN 0
    ELSE 1 + DigitRun(text, pos + 1, max - 1)

RECURSIVE MatchEnd(_, _, _, _, _)
\* offset just after the match of items k.. of a source at offset pos, or -1
MatchEnd(items, k, text, pos, ignoreCase) ==
    IF k > Len(items) THEN pos
    ELSE IF items[k].kind = "lit"
    THEN IF /\ pos < Len(text)
            /\ IF ignoreCase
               THEN UpperChar(text[pos + 1]) = UpperChar(items[k].ch)
               ELSE text[pos + 1] = items[k].ch
         THEN MatchEnd(items, k + 1, text, pos + 1, ignoreCase)
         ELSE -1
    ELSE LET run == DigitRun(text, pos, items[k].max) IN
         IF run < items[k].min THEN -1
         ELSE MatchEnd(items, k + 1, text, pos + run, ignoreCase)

RECURSIVE AltEnd(_, _, _, _)
\* the first alternative (from the a-th on) that matches at offset pos decides
AltEnd(re, a, text, pos) ==
    IF a > Len(re.alts) THEN -1
    ELSE LET e == MatchEnd(re.alts[a], 1, text, pos, re.ignoreCase) IN
         IF e >= 0 THEN e ELSE AltEnd(re, a + 1, text, pos)

RECURSIVE Exec(_, _, _)
\* RegExp.prototype.exec from lastIndex on: the leftmost match
Exec(re, text, lastIndex) ==
    IF lastIndex > Len(text) THEN NoMatch
    ELSE LET e == AltEnd(re, 1, text, lastIndex) IN
         IF e >= 0 THEN [index |-> lastIndex, end |-> e]
         ELSE Exec(re, text, lastIndex + 1)

RECURSIVE ExecLoop(_, _, _)
\* while ((match = pattern.exec(text)) !== null) allMatches.push({ match })
ExecLoop(re, text, lastIndex) ==
    LET match == Exec(re, text, lastIndex) IN
    IF match = NoMatch THEN <<>>
    ELSE IF ~re.global THEN <<match>>
    ELSE <<match>> \o ExecLoop(re, text, match.end)

\* RegExp.prototype.test with lastIndex reset to 0
Test(re, text) == Exec(re, text, 0) # NoMatch

RECURSIVE Flatten(_)
Flatten(seqs) == IF seqs = <<>> THEN <<>> ELSE Head(seqs) \o Flatten(Tail(seqs))

RECURSIVE InsertByIndex(_, _)
\* insert m after every match that does not start later (the sort is stable)
InsertByIndex(sorted, m) ==
    IF sorted = <<>> THEN <<m>>
    ELSE IF Head(sorted).index <= m.index
         THEN <<Head(sorted)>> \o InsertByIndex(Tail(sorted), m)
         ELSE <<m>> \o sorted

RECURSIVE SortByIndexFrom(_, _)
SortByIndexFrom(ms, acc) ==
    IF ms = <<>> THEN acc
    ELSE SortByIndexFrom(Tail(ms), InsertByIndex(acc, Head(ms)))

\* allMatches.sort((a, b) => a.match.index - b.match.index)
SortByIndex(ms) == SortByIndexFrom(ms, <<>>)

--------------------------------------------------------------------------
(* DOMScanner.  The document is the body's elements in document order,   *)
(* each with its child nodes: text nodes and marker spans                 *)
(* (span.vulners-highlight, whose text is the bulletin id).  A node is a  *)
(* record [id, span, text].  An id stands for the identity of the node: a *)
(* node of the page as loaded is <<k>>, the k-th node of the fragment     *)
(* built for node n is n \o <<k>>, and the text node that replaces marker *)
(* m is m \o <<0>>.                                                       *)

Elements == <<"main", "aside">>

ElementSet == {Elements[k] : k \in 1..Len(Elements)}

\* node.parentElement of a node that has none
NoElement == "none"

\* the idleCallbackId that is null
NoIdleCallback == -1

\* the idleCallbackId of a callback that has run
RanIdleCallback == 0

RECURSIVE RemoveAt(_, _)
\* a sequence without its k-th element
RemoveAt(q, k) ==
    IF k = 1 THEN Tail(q) ELSE <<Head(q)>> \o RemoveAt(Tail(q), k - 1)

TextNode(id, text) == [id |-> id, span |-> FALSE, text |-> text]

\* createHighlightElement: span.textContent = bulletinId
Marker(id, bulletinId) == [id |-> id, span |-> TRUE, text |-> bulletinId]

\* the text nodes of the document, in document order (what a TreeWalker
\* with SHOW_TEXT yields, the text inside a marker left out: its parent's
\* class is vulners-highlight and acceptNode rejects it)
TextNodesOf(d, e) == SelectSeq(d[e], LAMBDA c : ~c.span)

\* node.parentElement
ParentOf(d, n) ==
    IF \E e \in ElementSet : \E k \in 1..Len(d[e]) : d[e][k].id = n
    THEN CHOOSE e \in ElementSet : \E k \in 1..Len(d[e]) : d[e][k].id = n
    ELSE NoElement

\* node.isConnected
IsConnected(d, n) == ParentOf(d, n) # NoElement

\* node.textContent || ''
TextContent(d, n) ==
    LET e == ParentOf(d, n) IN
    IF e = NoElement THEN <<>>
    ELSE d[e][CHOOSE k \in 1..Len(d[e]) : d[e][k].id = n].text

\* document.querySelectorAll('.vulners-highlight')
Markers(d) == {c \in UNION {{d[e][k] : k \in 1..Len(d[e])} : e \in ElementSet} : c.span}

\* content/constants.ts CONFIG
MIN_TEXT_LENGTH == 5

MAX_IMMEDIATE_OFFSCREEN == 20

IMMEDIATE_OFFSCREEN_SLICE == 10

\* DOMScanner.hasMatchingPattern
hasMatchingPattern(text) ==
    IF Len(text) < MIN_TEXT_LENGTH THEN FALSE
    ELSE \E k \in 1..Len(patterns) : Test(patterns[k], text)

\* DOMScanner.buildCombinedPattern: the pattern it leaves in combinedPattern
buildCombinedPattern(ps) ==
    IF Len(ps) = 0 THEN NullPattern
    ELSE RegExp(Flatten([k \in 1..Len(ps) |-> ps[k].alts]), TRUE, TRUE)

\* a pattern string of the fetchPatterns response: its source, whether it
\* is written /source/flags, its flags, and whether new RegExp throws on it
PatternString(source, slashed, global, ignoreCase, throws) ==
    [source |-> source, slashed |-> slashed, global |-> global,
     ignoreCase |-> ignoreCase, throws |-> throws]

\* the map callback of loadPatterns
ParsePattern(str) ==
    IF str.throws THEN NullPattern
    ELSE IF str.slashed THEN RegExp(<<str.source>>, str.global, str.ignoreCase)
    ELSE RegExp(<<str.source>>, TRUE, TRUE)

\* response.patterns.map(...).filter(Boolean)
ParsePatterns(strs) ==
    SelectSeq([k \in 1..Len(strs) |-> ParsePattern(strs[k])],
              LAMBDA re : re # NullPattern)

\* the bulletinTypeCounts of a scanner that has counted nothing
ZeroCounts == [t \in BulletinTypes |-> 0]

\* the matches of highlightCVEsInNode's allMatches, in its final order
AllMatches(text) ==
    IF combinedPattern # NullPattern
    THEN ExecLoop(combinedPattern, text, 0)
    ELSE SortByIndex(Flatten([k \in 1..Len(patterns) |->
                                  ExecLoop(patterns[k], text, 0)]))

OverlapsProcessedMutant(matchStart, processedOffset) == FALSE

\* if (matchStart < processedOffset) return
OverlapsProcessed(matchStart, processedOffset) == matchStart < processedOffset

IsNewBulletinMutant(bulletinId, highlighted) == TRUE

\* if (!this.highlightedBulletins.has(bulletinId))
IsNewBulletin(bulletinId, highlighted) == bulletinId \notin highlighted

AlreadyProcessedMutant(n, processed) == FALSE

\* if (this.processedNodes.has(textNode)) return
AlreadyProcessed(n, processed) == n \in processed

\* the state the allMatches.forEach callback of highlightCVEsInNode works on
MatchLoopStart(s) ==
    [processedOffset |-> 0, pieces |-> <<>>, retained |-> <<>>,
     highlighted |-> s.highlightedBulletins, counts |-> s.bulletinTypeCounts]

\* the call of the allMatches.forEach callback for the k-th match
MatchStep(text, all, k, a) ==
    IF OverlapsProcessed(all[k].index, a.processedOffset) THEN a
    ELSE LET match == all[k]
             bulletinId == UpperCased(Substring(text, match.index, match.end))
             bulletinType == detectBulletinType(bulletinId)
             before == IF match.index > a.processedOffset
                       THEN <<[span |-> FALSE,
                               text |-> Substring(text, a.processedOffset, match.index)]>>
                       ELSE <<>>
         IN [processedOffset |-> match.end,
             pieces |-> a.pieces \o before \o <<[span |-> TRUE, text |-> bulletinId]>>,
             retained |-> Append(a.retained, k),
             highlighted |-> a.highlighted \cup {bulletinId},
             counts |-> IF IsNewBulletin(bulletinId, a.highlighted)
                        THEN [a.counts EXCEPT ![bulletinType] = @ + 1]
                        ELSE a.counts]

RECURSIVE MatchLoop(_, _, _, _)
\* allMatches.forEach(...) from the k-th match on
MatchLoop(text, all, k, a) ==
    IF k > Len(all) THEN a
    ELSE CHOOSE r \in {MatchLoop(text, all, k + 1, b) : b \in {MatchStep(text, all, k, a)}} :
             TRUE

\* the scanner fields highlightCVEsInNode reads and writes, with the ghost
\* record of the nodes it has worked on
ScanState ==
    [processedNodes |-> processedNodes,
     highlightedBulletins |-> highlightedBulletins,
     bulletinTypeCounts |-> bulletinTypeCounts,
     pendingHighlights |-> pendingHighlights,
     visits |-> visits]

\* the part of highlightCVEsInNode after the node is marked processed: text
\* is the node's text, all its matches, a the outcome of the loop over them
HighlightWork(s, n, text, all, a) ==
         LET rest == IF a.processedOffset < Len(text)
                     THEN <<[span |-> FALSE,
                             text |-> Substring(text, a.processedOffset, Len(text))]>>
                     ELSE <<>>
             pieces == a.pieces \o rest
             fragment == [k \in 1..Len(pieces) |->
                             [id |-> n \o <<k>>, span |-> pieces[k].span,
                              text |-> pieces[k].text]]
             visit == [count |-> IF n \in DOMAIN s.visits
                                 THEN s.visits[n].count + 1 ELSE 1,
                       again |-> FALSE,
                       candidates |-> all,
                       found |-> [k \in 1..Len(all) |->
                                     UpperCased(Substring(text, all[k].index, all[k].end))],
                       retained |-> a.retained,
                       markers |-> SelectSeq(fragment, LAMBDA c : c.span),
                       queued |-> (IF n \in DOMAIN s.visits THEN s.visits[n].queued ELSE 0)
                                  + (IF Len(pieces) > 0 THEN 1 ELSE 0)]
         IN [processedNodes |-> s.processedNodes \cup {n},
             highlightedBulletins |-> a.highlighted,
             bulletinTypeCounts |-> a.counts,
             pendingHighlights |->
                 IF Len(pieces) > 0
                 THEN Append(s.pendingHighlights,
                             [parent |-> ParentOf(dom, n), oldNode |-> n,
                              fragment |-> fragment])
                 ELSE s.pendingHighlights,
             visits |-> [m \in DOMAIN s.visits \cup {n} |->
                            IF m = n THEN visit ELSE s.visits[m]]]

\* DOMScanner.highlightCVEsInNode(textNode) in scanner state s
highlightCVEsInNode(s, n) ==
    IF AlreadyProcessed(n, s.processedNodes)
    THEN [s EXCEPT !.visits = [m \in DOMAIN s.visits |->
                                 IF m = n THEN [s.visits[m] EXCEPT !.again = TRUE]
                                 ELSE s.visits[m]]]
    ELSE IF ParentOf(dom, n) = NoElement THEN s
    ELSE CHOOSE r \in
             {HighlightWork(s, n, TextContent(dom, n), all, a) :
                 <<all, a>> \in
                     {<<m, MatchLoop(TextContent(dom, n), m, 1, MatchLoopStart(s))>> :
                         m \in {AllMatches(TextContent(dom, n))}}} : TRUE

RECURSIVE HighlightEach(_, _, _)
\* nodes.forEach(n => highlightCVEsInNode(n)), behind the caller's own test
\* n.isConnected && !processedNodes.has(n) when the caller makes it
HighlightEach(s, nodes, guarded) ==
    IF nodes = <<>> THEN s
    ELSE LET n == Head(nodes)
             t == IF guarded /\ ~(IsConnected(dom, n) /\ n \notin s.processedNodes)
                  THEN s
                  ELSE highlightCVEsInNode(s, n)
         IN CHOOSE r \in {HighlightEach(u, Tail(nodes), guarded) : u \in {t}} : TRUE

\* the assignments of a scanner state to the scanner's fields
SetScanState(s) ==
    /\ processedNodes' = s.processedNodes
    /\ highlightedBulletins' = s.highlightedBulletins
    /\ bulletinTypeCounts' = s.bulletinTypeCounts
    /\ pendingHighlights' = s.pendingHighlights
    /\ visits' = s.visits

FlushCallback == [kind |-> "flush", nodes |-> <<>>]

ScanCallback(nodes) == [kind |-> "scan", nodes |-> nodes]

scheduleHighlightFlushMutant(scheduled, queue) == Append(queue, FlushCallback)

\* DOMScanner.scheduleHighlightFlush: the animation-frame queue it leaves
scheduleHighlightFlush(scheduled, queue) ==
    IF scheduled THEN queue ELSE Append(queue, FlushCallback)

Ids(nodes) == [k \in 1..Len(nodes) |-> nodes[k].id]

Min(a, b) == IF a < b THEN a ELSE b

\* a fetchPatterns response: null (the message failed or the API gave no
\* list), or a list of pattern strings
PatternsResponse(strs) == [isArray |-> TRUE, patterns |-> strs]

NoPatterns == [isArray |-> FALSE, patterns |-> <<>>]

\* /DSA-\d{4}-\d/gi and /\d{3}-\d{6}/gi: two patterns whose matches overlap
DsaSource == Literal(<<"D", "S", "A", "-">>) \o <<DigitsItem(4, 4), Lit("-"), DigitsItem(1, 1)>>

SerialSource == <<DigitsItem(3, 3), Lit("-"), DigitsItem(6, 6)>>

\* a list of three well-formed pattern strings, the last one written without
\* slashes and flags
RemotePatterns ==
    PatternsResponse(<< PatternString(CVE_PATTERN.alts[1], TRUE, TRUE, TRUE, FALSE),
                        PatternString(DsaSource, TRUE, TRUE, TRUE, FALSE),
                        PatternString(SerialSource, FALSE, FALSE, FALSE, FALSE) >>)

\* a list whose only pattern string new RegExp rejects
MalformedPatterns ==
    PatternsResponse(<< PatternString(<<Lit("(")>>, TRUE, TRUE, TRUE, TRUE) >>)

\* a list without entries
EmptyPatterns == PatternsResponse(<<>>)

\* DOMScanner.loadPatterns, called while no patterns are loaded (init, and
\* the toggle handler when patternsLoaded is false)
LoadPatterns ==
    /\ ~patternsLoaded
    /\ LET response == patternsResponse IN
       IF response.isArray
       THEN /\ patterns' = ParsePatterns(response.patterns)
            /\ patternsLoaded' = TRUE
            /\ UNCHANGED combinedPattern
       ELSE /\ patterns' = IF Len(patterns) = 0 THEN <<CVE_PATTERN>> ELSE patterns
            /\ patternsLoaded' = (Len(patterns) = 0 \/ patternsLoaded)
            /\ combinedPattern' = buildCombinedPattern(patterns')
    /\ UNCHANGED <<domVars, workVars, queueVars, callerVars>>

RECURSIVE WalkerNodesFrom(_, _)
\* the walk of scanAndHighlight from element k on: the text nodes its filter
\* accepts (not yet processed) that hasMatchingPattern holds for and whose
\* parent is one of parents
WalkerNodesFrom(k, parents) ==
    IF k > Len(Elements) THEN <<>>
    ELSE (IF Elements[k] \in parents
          THEN Ids(SelectSeq(dom[Elements[k]],
                             LAMBDA c : /\ ~c.span
                                        /\ c.id \notin processedNodes
                                        /\ hasMatchingPattern(c.text)))
          ELSE <<>>) \o WalkerNodesFrom(k + 1, parents)

WalkerNodes(parents) == WalkerNodesFrom(1, parents)

\* DOMScanner.scanAndHighlight(isProcessing, pauseUntilMs); paused stands for
\* Date.now() < pauseUntilMs.  requestIdleCallback exists in the browsers the
\* extension is built for, so scheduleIdleProcessing takes its first branch.
scanAndHighlight(isProcessing, paused) ==
    IF isProcessing \/ paused
    THEN UNCHANGED <<workVars, queueVars, badge>>
    ELSE \E visibleNodes \in {WalkerNodes(inViewport)},
            offscreenNodes \in {WalkerNodes(ElementSet \ inViewport)} :
         LET few == Len(offscreenNodes) <= MAX_IMMEDIATE_OFFSCREEN
             idleNodes == IF few THEN offscreenNodes
                          ELSE SubSeq(offscreenNodes, 1,
                                      Min(IMMEDIATE_OFFSCREEN_SLICE, Len(offscreenNodes)))
             queue == IF visibleNodes # <<>>
                      THEN Append(rafQueue, ScanCallback(visibleNodes))
                      ELSE rafQueue
         IN /\ visibilityObserver' = TRUE
            /\ rafQueue' = queue
            /\ IF idleNodes # <<>>
               THEN /\ idleCallbacks' = Append(idleCallbacks, idleNodes)
                    /\ idleCallbackId' = Len(idleCallbacks')
               ELSE UNCHANGED <<idleCallbacks, idleCallbackId>>
            /\ IF few
               THEN UNCHANGED <<pendingOffscreenElements, observed>>
               ELSE /\ pendingOffscreenElements' =
                           [e \in ElementSet |->
                               pendingOffscreenElements[e] \o
                               (IF e \in inViewport THEN <<>> ELSE WalkerNodes({e}))]
                    /\ observed' = observed \cup
                           {e \in ElementSet \ inViewport : WalkerNodes({e}) # <<>>}
            /\ badge' = IF Len(pendingHighlights) = 0 /\ visibleNodes = <<>>
                        THEN Cardinality(highlightedBulletins)
                        ELSE badge
            /\ UNCHANGED <<workVars, highlightFlushScheduled>>

\* the owner of the scanner calls scanAndHighlight while highlighting is on
ScanAndHighlight(isProcessing, paused) ==
    /\ enabled
    /\ patternsLoaded
    /\ Len(rafQueue) < MaxQueued
    /\ Len(idleCallbacks) < MaxQueued
    /\ scanAndHighlight(isProcessing, paused)
    /\ UNCHANGED <<patternVars, domVars, enabled, toggles>>

\* DOMScanner.scanElementForCVEs(element), called for an element a mutation
\* added or changed while highlighting is on
ScanElementForCVEs(e) ==
    /\ enabled
    /\ patternsLoaded
    /\ LET nodes == SelectSeq(TextNodesOf(dom, e),
                              LAMBDA c : hasMatchingPattern(c.text))
       IN \E s \in {HighlightEach(ScanState, Ids(nodes), FALSE)} : SetScanState(s)
    /\ UNCHANGED <<patternVars, domVars, queueVars, badge, enabled, toggles>>

\* DOMScanner.highlightCVEsInNode(textNode), called for a text node a
\* mutation added to main, behind the mutation handler's hasMatchingPattern
HighlightCVEsInNode(n) ==
    /\ enabled
    /\ patternsLoaded
    /\ \E k \in 1..Len(dom["main"]) :
          /\ dom["main"][k].id = n
          /\ ~dom["main"][k].span
          /\ hasMatchingPattern(dom["main"][k].text)
    /\ \E s \in {highlightCVEsInNode(ScanState, n)} : SetScanState(s)
    /\ UNCHANGED <<patternVars, domVars, queueVars, badge, enabled, toggles>>

\* DOMScanner.scheduleHighlightFlush(), called by the owner after a pass that
\* left replacements pending
ScheduleHighlightFlush ==
    /\ enabled
    /\ patternsLoaded
    /\ Len(pendingHighlights) > 0
    /\ rafQueue' = scheduleHighlightFlush(highlightFlushScheduled, rafQueue)
    /\ highlightFlushScheduled' = TRUE
    /\ UNCHANGED <<patternVars, domVars, workVars, idleCallbacks, idleCallbackId,
                   visibilityObserver, observed,
                   pendingOffscreenElements, badge, enabled, toggles>>

RECURSIVE ReplaceChild(_, _, _)
\* parent.replaceChild(fragment, oldNode) on the parent's child list
ReplaceChild(children, oldNode, fragment) ==
    IF children = <<>> THEN <<>>
    ELSE IF Head(children).id = oldNode THEN fragment \o Tail(children)
    ELSE <<Head(children)>> \o ReplaceChild(Tail(children), oldNode, fragment)

HasRecordedParentMutant(d, p) == ParentOf(d, p.oldNode) = NoElement

\* flushPendingHighlights: oldNode.parentNode === parent
HasRecordedParent(d, p) == ParentOf(d, p.oldNode) = p.parent

RECURSIVE FlushEntries(_, _, _)
\* the loop of flushPendingHighlights over pendingHighlights
FlushEntries(d, entries, k) ==
    IF k > Len(entries) THEN d
    ELSE LET p == entries[k]
             next == IF HasRecordedParent(d, p)
                     THEN [d EXCEPT ![p.parent] = ReplaceChild(@, p.oldNode, p.fragment)]
                     ELSE d
         IN CHOOSE r \in {FlushEntries(x, entries, k + 1) : x \in {next}} : TRUE

\* an animation frame runs the oldest requestAnimationFrame callback: the
\* flush of scheduleHighlightFlush, or the visible-node pass of scanAndHighlight
AnimationFrame ==
    /\ rafQueue # <<>>
    /\ LET cb == Head(rafQueue) IN
       IF cb.kind = "flush"
       THEN /\ dom' = FlushEntries(dom, pendingHighlights, 1)
            /\ pendingHighlights' = <<>>
            /\ badge' = Cardinality(highlightedBulletins)
            /\ highlightFlushScheduled' = FALSE
            /\ rafQueue' = Tail(rafQueue)
            /\ UNCHANGED <<processedNodes, highlightedBulletins, bulletinTypeCounts,
                           visits>>
       ELSE \E s \in {HighlightEach(ScanState, cb.nodes, TRUE)} :
            LET pending == Len(s.pendingHighlights) > 0
            IN /\ SetScanState(s)
               /\ rafQueue' = IF pending
                              THEN scheduleHighlightFlush(highlightFlushScheduled,
                                                          Tail(rafQueue))
                              ELSE Tail(rafQueue)
               /\ highlightFlushScheduled' = (pending \/ highlightFlushScheduled)
               /\ UNCHANGED <<dom, badge>>
    /\ UNCHANGED <<patternVars, inViewport, patternsResponse, idleCallbacks, idleCallbackId,
                   visibilityObserver, observed, pendingOffscreenElements,
                   enabled, toggles>>

\* the numbers of nodes a deadline lets processChunk take before
\* timeRemaining() runs low: enough for the longest list of the pages below
ChunkSizes == {IMMEDIATE_OFFSCREEN_SLICE}

IdleCallbackMutant(k, taken) ==
    /\ k \in 1..Len(idleCallbacks)
    /\ \E s \in {HighlightEach(ScanState,
                                 SubSeq(idleCallbacks[k], 1,
                                        Min(taken, Len(idleCallbacks[k]))), TRUE)} :
          SetScanState(s)
    /\ idleCallbacks' = RemoveAt(idleCallbacks, k)
    /\ idleCallbackId' = RanIdleCallback
    /\ UNCHANGED <<patternVars, domVars, visibilityObserver, observed,
                   pendingOffscreenElements, callerVars, rafQueue,
                   highlightFlushScheduled>>

\* processChunk of scheduleIdleProcessing, for the k-th waiting callback:
\* the deadline lets it take the first taken nodes of its list
IdleCallback(k, taken) ==
    /\ k \in 1..Len(idleCallbacks)
    /\ \E s \in {HighlightEach(ScanState,
                                 SubSeq(idleCallbacks[k], 1,
                                        Min(taken, Len(idleCallbacks[k]))), TRUE)} :
       LET rest == SubSeq(idleCallbacks[k], Min(taken, Len(idleCallbacks[k])) + 1,
                          Len(idleCallbacks[k]))
           pending == rest = <<>> /\ Len(s.pendingHighlights) > 0
       IN /\ SetScanState(s)
          /\ IF rest # <<>>
             THEN /\ idleCallbacks' = Append(RemoveAt(idleCallbacks, k), rest)
                  /\ idleCallbackId' = Len(idleCallbacks')
             ELSE /\ idleCallbacks' = RemoveAt(idleCallbacks, k)
                  /\ idleCallbackId' = IF idleCallbackId = k THEN RanIdleCallback
                                        ELSE IF idleCallbackId > k THEN idleCallbackId - 1
                                        ELSE idleCallbackId
          /\ rafQueue' = IF pending
                         THEN scheduleHighlightFlush(highlightFlushScheduled, rafQueue)
                         ELSE rafQueue
          /\ highlightFlushScheduled' = (pending \/ highlightFlushScheduled)
    /\ UNCHANGED <<patternVars, domVars, visibilityObserver, observed,
                   pendingOffscreenElements, callerVars>>

RECURSIVE IntersectEach(_, _, _)
\* the entries loop of the IntersectionObserver callback: the scanner state
\* after the pending nodes of the intersecting elements are handled
IntersectEach(s, k, entries) ==
    IF k > Len(Elements) THEN s
    ELSE LET t == IF Elements[k] \in entries
                  THEN HighlightEach(s, pendingOffscreenElements[Elements[k]], TRUE)
                  ELSE s
         IN CHOOSE r \in {IntersectEach(u, k + 1, entries) : u \in {t}} : TRUE

\* the IntersectionObserver callback, for the observed elements that have
\* come into the viewport
IntersectionCallback(entries) ==
    /\ visibilityObserver
    /\ observed # {}
    /\ entries \subseteq observed \cap inViewport
    /\ \E s \in {IntersectEach(ScanState, 1, entries)} :
       LET pending == Len(s.pendingHighlights) > 0
           handled == {e \in entries : pendingOffscreenElements[e] # <<>>}
       IN /\ SetScanState(s)
          /\ pendingOffscreenElements' =
                 [e \in ElementSet |-> IF e \in handled THEN <<>>
                                       ELSE pendingOffscreenElements[e]]
          /\ observed' = observed \ handled
          /\ rafQueue' = IF pending
                         THEN scheduleHighlightFlush(highlightFlushScheduled, rafQueue)
                         ELSE rafQueue
          /\ highlightFlushScheduled' = (pending \/ highlightFlushScheduled)
    /\ UNCHANGED <<patternVars, domVars, idleCallbacks, idleCallbackId,
                   visibilityObserver, callerVars>>

\* the page is scrolled and an observed element comes into the viewport
Scroll(e) ==
    /\ e \in observed
    /\ e \notin inViewport
    /\ inViewport' = inViewport \cup {e}
    /\ UNCHANGED <<patternVars, dom, patternsResponse, workVars, queueVars, callerVars>>

RECURSIVE ConcatText(_)
ConcatText(children) ==
    IF children = <<>> THEN <<>> ELSE Head(children).text \o ConcatText(Tail(children))

\* the children of an element after removeAllHighlights has replaced each of
\* its markers by a text node and normalized the element: the text nodes
\* merge into the first child, which is the old first text node or the text
\* node created for the first marker
Unwrapped(children) ==
    IF \A k \in 1..Len(children) : ~children[k].span THEN children
    ELSE <<TextNode(IF children[1].span THEN children[1].id \o <<0>> ELSE children[1].id,
                    ConcatText(children))>>

\* DOMScanner.removeAllHighlights (with cleanup), called by the toggle
\* handler when highlighting is turned off
RemoveAllHighlights ==
    /\ enabled
    /\ toggles < MaxToggles
    /\ toggles' = toggles + 1
    /\ enabled' = FALSE
    /\ idleCallbacks' = IF idleCallbackId \in 1..Len(idleCallbacks)
                        THEN RemoveAt(idleCallbacks, idleCallbackId)
                        ELSE idleCallbacks
    /\ idleCallbackId' = NoIdleCallback
    /\ visibilityObserver' = FALSE
    /\ observed' = {}
    /\ pendingOffscreenElements' = [e \in ElementSet |-> <<>>]
    /\ processedNodes' = {}
    /\ dom' = [e \in ElementSet |-> Unwrapped(dom[e])]
    /\ highlightedBulletins' = {}
    /\ bulletinTypeCounts' = ZeroCounts
    /\ badge' = 0
    /\ visits' = << >>
    /\ UNCHANGED <<patternVars, inViewport, patternsResponse, pendingHighlights,
                   highlightFlushScheduled, rafQueue>>

\* the toggle handler when highlighting is turned on: it scans at once when
\* patterns are loaded (otherwise after loadPatterns)
EnableHighlighting(isProcessing, paused) ==
    /\ ~enabled
    /\ Len(rafQueue) < MaxQueued
    /\ Len(idleCallbacks) < MaxQueued
    /\ enabled' = TRUE
    /\ IF patternsLoaded
       THEN scanAndHighlight(isProcessing, paused)
       ELSE UNCHANGED <<workVars, queueVars, badge>>
    /\ UNCHANGED <<patternVars, domVars, toggles>>

--------------------------------------------------------------------------
(* DOMScanner: what scanAndHighlight returns, the storm detector and the  *)
(* adaptive debounce                                                       *)

\* no scanAndHighlight call has returned yet
NoResult == [args |-> <<>>, isProcessing |-> FALSE, needsRescan |-> FALSE]

\* the value scanAndHighlight(isProcessing, pauseUntilMs) returns; paused
\* stands for Date.now() < pauseUntilMs
scanAndHighlightResult(isProcessing, paused) ==
    IF isProcessing
    THEN [args |-> <<isProcessing, paused>>, isProcessing |-> isProcessing,
          needsRescan |-> FALSE]
    ELSE IF paused
    THEN [args |-> <<isProcessing, paused>>, isProcessing |-> isProcessing,
          needsRescan |-> TRUE]
    ELSE [args |-> <<isProcessing, paused>>, isProcessing |-> FALSE,
          needsRescan |-> FALSE]

\* the owner calls scanAndHighlight and keeps what it returned
CallScanAndHighlight(isProcessing, paused) ==
    /\ ScanAndHighlight(isProcessing, paused)
    /\ scanResult' = scanAndHighlightResult(isProcessing, paused)

ResultIdle == scanResult = NoResult

\* content/constants.ts CONFIG
STORM_THRESHOLD == 50

STORM_WINDOW_MS == 500

DEBOUNCE_LOW_MS == 50

DEBOUNCE_MEDIUM_MS == 150

DEBOUNCE_HIGH_MS == 250

DEBOUNCE_STORM_MS == 300

DEBOUNCE_EXTREME_MS == 400

DEBOUNCE_RECENT_LOW == 5

DEBOUNCE_RECENT_MEDIUM == 20

DEBOUNCE_RECENT_HIGH == 15

DEBOUNCE_RECENT_EXTREME == 30

\* getAdaptiveDebounceMs was not called since the lists last changed
NoDebounce == 0

InWindowMutant(t, at) == at - t <= STORM_WINDOW_MS

\* the filter of detectMutationStorm: now - t < CONFIG.STORM_WINDOW_MS
InWindow(t, at) == at - t < STORM_WINDOW_MS

\* the milliseconds that pass before a detectMutationStorm call: none, one
\* less than the window, the window
Advances == {0, STORM_WINDOW_MS - 1, STORM_WINDOW_MS}

\* DOMScanner.detectMutationStorm(), called advance ms after the last call
DetectMutationStorm(advance) ==
    /\ dateNow + advance <= MaxDateNow
    /\ Len(batchLog) < MaxBatches
    /\ dateNow' = dateNow + advance
    /\ LET at == dateNow + advance
           pushed == Append(mutationTimestamps, at)
           kept == SelectSeq(pushed, LAMBDA t : InWindow(t, at))
       IN /\ mutationTimestamps' = kept
          /\ stormDetected' = IF Len(kept) > STORM_THRESHOLD THEN "storm" ELSE "calm"
          /\ batchLog' = Append(batchLog, at)
    /\ debounceMs' = NoDebounce
    /\ UNCHANGED pendingMutations

\* DOMScanner.getAdaptiveDebounceMs for pendingMutations.length = count and
\* mutationTimestamps.length = recentActivity
getAdaptiveDebounceMs(count, recentActivity) ==
    IF recentActivity > DEBOUNCE_RECENT_EXTREME THEN DEBOUNCE_EXTREME_MS
    ELSE IF recentActivity > DEBOUNCE_RECENT_HIGH THEN DEBOUNCE_HIGH_MS
    ELSE IF count < DEBOUNCE_RECENT_LOW THEN DEBOUNCE_LOW_MS
    ELSE IF count < DEBOUNCE_RECENT_MEDIUM THEN DEBOUNCE_MEDIUM_MS
    ELSE DEBOUNCE_STORM_MS

\* DOMScanner.getAdaptiveDebounceMs()
GetAdaptiveDebounceMs ==
    /\ debounceMs' = getAdaptiveDebounceMs(pendingMutations, Len(mutationTimestamps))
    /\ UNCHANGED <<mutationTimestamps, pendingMutations, dateNow, batchLog,
                   stormDetected>>

\* the numbers of records a mutation batch brings
BatchSizes == {1, DEBOUNCE_RECENT_LOW}

\* DOMScanner.addPendingMutations(mutations), mutations.length = k
AddPendingMutations(k) ==
    /\ pendingMutations + k <= MaxPendingRecords
    /\ pendingMutations' = pendingMutations + k
    /\ debounceMs' = NoDebounce
    /\ UNCHANGED <<mutationTimestamps, dateNow, batchLog, stormDetected>>

\* DOMScanner.clearPendingMutations()
ClearPendingMutations ==
    /\ pendingMutations > 0
    /\ pendingMutations' = 0
    /\ debounceMs' = NoDebounce
    /\ UNCHANGED <<mutationTimestamps, dateNow, batchLog, stormDetected>>

MutationIdle ==
    /\ mutationTimestamps = <<>>
    /\ pendingMutations = 0
    /\ dateNow = 0
    /\ batchLog = <<>>
    /\ stormDetected = "none"
    /\ debounceMs = NoDebounce

--------------------------------------------------------------------------
(* The pages the scanner is run on *)

\* an identifier twice in one text node, in two spellings, and once more in
\* an element outside the viewport
DocRepeat ==
    [e \in ElementSet |->
        IF e = "main"
        THEN <<TextNode(<<1>>, <<"c", "v", "e", "-", "2", "0", "2", "4", "-", "1", "2", "3", "4", " ", "C", "V", "E", "-", "2", "0", "2", "4", "-", "1", "2", "3", "4">>)>>
        ELSE <<TextNode(<<2>>, <<"C", "V", "E", "-", "2", "0", "2", "4", "-", "1", "2", "3", "4">>)>>]

\* a text in which /DSA-\d{4}-\d/ matches at [0,10) and /\d{3}-\d{6}/ at [5,15)
DocOverlap ==
    [e \in ElementSet |->
        IF e = "main"
        THEN <<TextNode(<<1>>, <<"D", "S", "A", "-", "1", "2", "3", "4", "-", "5", "6", "7", "8", "9", "0">>)>>
        ELSE <<>>]

\* as DocOverlap, with a second match of /\d{3}-\d{6}/ at [12,22) that the
\* exec loop steps over because it overlaps the one at [5,15)
DocChained ==
    [e \in ElementSet |->
        IF e = "main"
        THEN <<TextNode(<<1>>, <<"D", "S", "A", "-", "1", "2", "3", "4", "-", "5", "6", "7", "8", "9", "0", "-", "1", "2", "3", "4", "5", "6">>)>>
        ELSE <<>>]

\* more text nodes outside the viewport than MAX_IMMEDIATE_OFFSCREEN
DocLarge ==
    [e \in ElementSet |->
        IF e = "main"
        THEN <<>>
        ELSE [k \in 1..(MAX_IMMEDIATE_OFFSCREEN + 1) |->
                 TextNode(<<k>>, <<"C", "V", "E", "-", "2", "0", "2", "4", "-", "1", "2", "3", "4">>)]]

\* a page whose aside still holds more than MAX_IMMEDIATE_OFFSCREEN text nodes
\* after one slice of them has been processed
DocLong ==
    [e \in ElementSet |->
        IF e = "main"
        THEN <<>>
        ELSE [k \in 1..(MAX_IMMEDIATE_OFFSCREEN + IMMEDIATE_OFFSCREEN_SLICE + 1) |->
                 TextNode(<<k>>, <<"C", "V", "E", "-", "2", "0", "2", "4", "-", "1", "2", "3", "4">>)]]

\* the elements page mutations add nodes to
MutatedElements == {"main"}

\* the runs of the scanner model: a page and the fetchPatterns response
Runs == { <<DocRepeat, NoPatterns>>, <<DocRepeat, RemotePatterns>>,
          <<DocOverlap, RemotePatterns>>, <<DocOverlap, MalformedPatterns>>,
          <<DocLarge, NoPatterns>>, <<DocRepeat, EmptyPatterns>>,
          <<DocChained, RemotePatterns>> }

--------------------------------------------------------------------------
(* BackgroundService: the runtime.onMessage listener.  One message is     *)
(* followed from its arrival to its response: the listener's switch, the  *)
(* fetchWithRetry call of fetchCVEData or fetchPatterns with its timers,  *)
(* the read of the body, and the sendResponse call.                       *)

\* sender.tab is undefined
NoTab == 0

\* the tabs messages come from
Tabs == {1, 2}

\* request.count is undefined
NoCount == -1

\* a tab whose badge text was never set
NoBadgeText == <<"unset">>

\* a request and its sender
Message(action, cveId, count, tab) ==
    [action |-> action, cveId |-> cveId, count |-> count, tab |-> tab]

NoMessage == Message("", "", NoCount, NoTab)

\* the counts of update-badge messages
Counts == 0..MaxCount

\* the messages the listener is given
Messages ==
    {Message("fetchCVEData", id, NoCount, 1) : id \in CveIds \cup {""}}
    \cup {Message("fetchPatterns", "", NoCount, 1)}
    \cup {Message("updateBadge", "", c, tab) :
              c \in Counts \cup {NoCount}, tab \in Tabs \cup {NoTab}}
    \cup {Message("getStats", "", NoCount, 1)}

\* the decimal digits, digit d at position d + 1
DecimalDigits == <<"0", "1", "2", "3", "4", "5", "6", "7", "8", "9">>

RECURSIVE CountToString(_)
\* count.toString() of a non-negative integer: its decimal digits
CountToString(n) ==
    IF n < 10 THEN <<DecimalDigits[n + 1]>>
    ELSE CountToString(n \div 10) \o <<DecimalDigits[(n % 10) + 1]>>

BadgeTextMutant(count) ==
    IF count > 0 THEN (IF count >= 99 THEN <<"9", "9", "+">> ELSE CountToString(count)) ELSE <<>>

\* updateBadge: count > 0 ? (count > 99 ? '99+' : count.toString()) : ''
BadgeText(count) ==
    IF count > 0 THEN (IF count > 99 THEN <<"9", "9", "+">> ELSE CountToString(count)) ELSE <<>>

\* a response: {data}, {patterns} or {error}
DataResponse(data) == [kind |-> "data", data |-> data, patterns |-> ""]

PatternsReply(list) == [kind |-> "patterns", data |-> NoData, patterns |-> list]

\* how the fetchWithRetry call of the message ended: the status returned,
\* or -1 when it threw, and the number of fetch() calls made
RunOfCall ==
    [status |-> IF retryPc = "thrown" THEN -1 ELSE retryResult, calls |-> fetchCalls]

RECURSIVE TimePassedIn(_)
\* the time the attempts and backoffs of a fetchWithRetry call took
TimePassedIn(log) ==
    IF log = <<>> THEN 0
    ELSE Head(log).age + (IF Head(log).slept > 0 THEN Head(log).slept ELSE 0)
         + TimePassedIn(Tail(log))

\* case 'fetchCVEData': if (request.cveId)
HasCveId(request) == request.cveId # ""

\* the listener is called with a message (lines 28-78).  fetchCVEData reads
\* the cache at once; on a hit its promise is resolved and sendResponse runs
\* with the cached record; otherwise fetchFromAPI calls fetchWithRetry.
OnMessage(request) ==
    /\ msgPc = "none"
    /\ msg' = request
    /\ CASE request.action = "fetchCVEData" /\ HasCveId(request) ->
                /\ keepsChannel' = TRUE
                /\ IF CacheIsFresh(cveCache[CacheKey(request.cveId)], now)
                   THEN /\ responses' = Append(responses,
                               DataResponse(cveCache[CacheKey(request.cveId)].data))
                        /\ msgPc' = "answered"
                        /\ UNCHANGED retryVars
                   ELSE /\ Call
                        /\ msgPc' = "fetching"
                        /\ UNCHANGED responses
                /\ UNCHANGED badgeText
         [] request.action = "fetchPatterns" ->
                /\ keepsChannel' = TRUE
                /\ Call
                /\ msgPc' = "fetching"
                /\ UNCHANGED <<responses, badgeText>>
         [] request.action = "updateBadge" ->
                /\ badgeText' = IF request.tab # NoTab /\ request.count # NoCount
                                THEN [badgeText EXCEPT ![request.tab] = BadgeText(request.count)]
                                ELSE badgeText
                /\ msgPc' = "returned"
                /\ UNCHANGED <<keepsChannel, responses, retryVars>>
         [] OTHER ->
                \* fetchCVEData without a cveId, or an unknown action
                /\ msgPc' = "returned"
                /\ UNCHANGED <<keepsChannel, responses, badgeText, retryVars>>
    /\ UNCHANGED <<cacheVars, outsideMessage>>

\* the fetchWithRetry call of the message has returned or thrown, the body of
\* an ok response is read, and the promise of fetchCVEData (lines 131-147)
\* or fetchPatterns (lines 106-119) settles: sendResponse is called
PromiseSettles(body) ==
    /\ msgPc = "fetching"
    /\ retryPc \in {"returned", "thrown"}
    /\ msgPc' = "answered"
    /\ now' = now + TimePassedIn(attemptLog)
    /\ IF msg.action = "fetchCVEData"
       THEN IF ApiYieldsRecord(RunOfCall, body = "result")
            THEN LET entry == [data |-> ProcessVulnersData(msg.cveId, serverSeq + 1),
                               timestamp |-> now'] IN
                 /\ serverSeq' = serverSeq + 1
                 /\ cveCache' = [cveCache EXCEPT ![CacheKey(msg.cveId)] = entry]
                 /\ responses' = Append(responses, DataResponse(entry.data))
            ELSE /\ responses' = Append(responses, DataResponse(NotAvailable(msg.cveId)))
                 /\ UNCHANGED <<cveCache, serverSeq>>
       ELSE /\ responses' = Append(responses,
                    PatternsReply(IF ResponseOk(RunOfCall.status) /\ body = "result"
                                  THEN "list" ELSE "null"))
            /\ UNCHANGED <<cveCache, serverSeq>>
    /\ UNCHANGED <<retryVars, clockAdvances, reqs, outsideMessage,
                   msg, keepsChannel, badgeText>>

\* what response.json() gives for an ok response: a body with a result, a
\* body without one, or a rejection (the body is not JSON), which the catch
\* of fetchFromAPI and of fetchPatterns turns into null
Bodies == {"result", "none", "invalid"}

\* the cache when the message arrives: empty, or holding a record of CVE-1
\* stored at time 0
CachedAtZero ==
    [k \in CveIds |-> IF k = "CVE-1"
                      THEN [data |-> ProcessVulnersData("CVE-1", 1), timestamp |-> 0]
                      ELSE NoEntry]

--------------------------------------------------------------------------
(* TooltipManager (src/content/tooltip-manager.ts) *)

\* the highlighted spans of the page: two spans of the same bulletin (the
\* second without a data-bulletin-type), a span of an advisory and a span
\* without a data-bulletin-id
Spans == {"m1", "m2", "m3", "m4"}

BulletinIdOf(m) ==
    CASE m \in {"m1", "m2"} -> "CVE-1"
      [] m = "m3" -> "RHSA-1"
      [] OTHER -> ""

DatasetTypeOf(m) ==
    CASE m = "m1" -> "cve"
      [] m = "m3" -> "advisory"
      [] OTHER -> ""

\* (target.dataset.bulletinType as BulletinType) || 'cve'
BulletinTypeOf(m) == IF DatasetTypeOf(m) = "" THEN "cve" ELSE DatasetTypeOf(m)

BulletinIds == {BulletinIdOf(m) : m \in Spans} \ {""}

NoRecord == [id |-> "", type |-> "", description |-> "", status |-> ""]

\* what chrome.runtime.sendMessage gives: a response with data, a response
\* whose data is null, no response at all, or a rejection
SendOutcomes == {"data", "fallback", "nodata", "undefined", "throws"}

\* { ...response.data, type: bulletinType }
RecordFrom(bulletinId, bulletinType) ==
    [id |-> bulletinId, type |-> bulletinType,
     description |-> "from the provider", status |-> "Published"]

\* { ...response.data, type: bulletinType } of a response that carries the
\* record BackgroundService.fetchCVEData answers when fetchFromAPI has
\* returned null
FallbackFrom(bulletinId, bulletinType) ==
    [id |-> bulletinId, type |-> bulletinType,
     description |-> "Vulnerability information not available",
     status |-> "Unknown"]

\* the minimal data of lines 169-177
MinimalDataMutant(bulletinId, bulletinType) ==
    [id |-> bulletinId, type |-> bulletinType,
     description |-> IF bulletinType = "cve"
                     THEN "Unable to fetch vulnerability details"
                     ELSE "Click to view details on Vulners.com",
     status |-> "Error"]

MinimalData(bulletinId, bulletinType) ==
    [id |-> bulletinId, type |-> bulletinType,
     description |-> IF bulletinType = "cve"
                     THEN "Unable to fetch vulnerability details"
                     ELSE "Click to view details on Vulners.com",
     status |-> "Unknown"]

\* the part of fetchBulletinData after sendMessage has settled (lines
\* 159-177): how the promise settles, with what, and whether the data is cached
AfterSendMessage(bulletinId, bulletinType, outcome) ==
    IF outcome = "data"
    THEN [settled |-> "resolved", data |-> RecordFrom(bulletinId, bulletinType),
          cached |-> TRUE]
    ELSE IF outcome = "fallback"
    THEN [settled |-> "resolved", data |-> FallbackFrom(bulletinId, bulletinType),
          cached |-> TRUE]
    ELSE [settled |-> "resolved", data |-> MinimalData(bulletinId, bulletinType),
          cached |-> FALSE]

LoadingHTML(element) ==
    [kind |-> "loading", element |-> element, data |-> NoRecord]

TooltipHTML(element, data) ==
    [kind |-> "record", element |-> element, data |-> data]

NoHTML == [kind |-> "none", element |-> NoElement, data |-> NoRecord]

NoSettled ==
    [element |-> NoElement, outcome |-> "none", settled |-> "none",
     data |-> NoRecord, tracked |-> FALSE, shown |-> FALSE]

\* the test of line 78
IsStillTrackedMutant(element) == TRUE

IsStillTracked(element) == currentHighlightedElement = element /\ tooltip

\* the mouseenter listener of a span: handleMouseEnter, and showTooltip up to
\* its await; a cache hit of fetchBulletinData resumes showTooltip before any
\* other event is handled
HandleMouseEnter(m) ==
    /\ IF BulletinIdOf(m) = ""
       THEN UNCHANGED tooltipVars
       ELSE /\ currentHighlightedElement' = m
            /\ tooltip' = TRUE
            /\ tooltipDisplay' = "block"
            /\ IF cveDataCache[BulletinIdOf(m)] # NoRecord
               THEN /\ tooltipHtml' = TooltipHTML(m, cveDataCache[BulletinIdOf(m)])
                    /\ lastSettled' = [element |-> m, outcome |-> "cached",
                                       settled |-> "resolved",
                                       data |-> cveDataCache[BulletinIdOf(m)],
                                       tracked |-> TRUE, shown |-> TRUE]
                    /\ UNCHANGED hovers
               ELSE /\ Len(hovers) < MaxPending
                    /\ tooltipHtml' = LoadingHTML(m)
                    /\ hovers' = Append(hovers, m)
                    /\ UNCHANGED lastSettled
            /\ UNCHANGED <<hideTimers, hideTooltipTimeout, cveDataCache>>

\* the mouseleave listener of a span; intoTooltip: the pointer moves into the
\* tooltip
HandleMouseLeave(m, intoTooltip) ==
    /\ intoTooltip => tooltip
    /\ IF intoTooltip
       THEN UNCHANGED <<hideTimers, hideTooltipTimeout>>
       ELSE /\ hideTimers + (IF hideTooltipTimeout THEN 1 ELSE 0) <= MaxTimers
            /\ hideTimers' = hideTimers + (IF hideTooltipTimeout THEN 1 ELSE 0)
            /\ hideTooltipTimeout' = TRUE
    /\ UNCHANGED <<tooltip, tooltipHtml, tooltipDisplay, currentHighlightedElement,
                   cveDataCache, hovers, lastSettled>>

\* a hide timer fires and runs hideTooltip: the one whose id is held
\* (latest), or an earlier one that a later setTimeout has shadowed
HideTimerFires(latest) ==
    /\ IF latest THEN hideTooltipTimeout ELSE hideTimers > 0
    /\ hideTimers' = IF latest THEN hideTimers ELSE hideTimers - 1
    /\ hideTooltipTimeout' = FALSE
    /\ tooltipDisplay' = IF tooltip THEN "none" ELSE tooltipDisplay
    /\ currentHighlightedElement' = NoElement
    /\ UNCHANGED <<tooltip, tooltipHtml, cveDataCache, hovers, lastSettled>>

\* the mouseenter listener of the tooltip
TooltipMouseEnter ==
    /\ tooltip
    /\ hideTooltipTimeout' = FALSE
    /\ UNCHANGED <<tooltip, tooltipHtml, tooltipDisplay, currentHighlightedElement,
                   hideTimers, cveDataCache, hovers, lastSettled>>

\* the mouseleave listener of the tooltip: hideTooltip
TooltipMouseLeave ==
    /\ tooltip
    /\ hideTooltipTimeout' = FALSE
    /\ tooltipDisplay' = "none"
    /\ currentHighlightedElement' = NoElement
    /\ UNCHANGED <<tooltip, tooltipHtml, hideTimers, cveDataCache, hovers,
                   lastSettled>>

\* sendMessage of the k-th waiting showTooltip settles: the rest of
\* fetchBulletinData, then lines 78-80 of showTooltip
SendMessageSettles(k, outcome) ==
    /\ k \in 1..Len(hovers)
    /\ LET element == hovers[k]
           bulletinId == BulletinIdOf(element)
           bulletinType == BulletinTypeOf(element)
           result == AfterSendMessage(bulletinId, bulletinType, outcome)
           shown == result.settled = "resolved" /\ IsStillTracked(element)
       IN
       /\ hovers' = SubSeq(hovers, 1, k - 1) \o SubSeq(hovers, k + 1, Len(hovers))
       /\ cveDataCache' = IF result.cached
                          THEN [cveDataCache EXCEPT ![bulletinId] = result.data]
                          ELSE cveDataCache
       /\ tooltipHtml' = IF shown THEN TooltipHTML(element, result.data)
                         ELSE tooltipHtml
       /\ lastSettled' = [element |-> element, outcome |-> outcome,
                          settled |-> result.settled, data |-> result.data,
                          tracked |-> currentHighlightedElement = element,
                          shown |-> shown]
    /\ UNCHANGED <<tooltip, tooltipDisplay, currentHighlightedElement,
                   hideTimers, hideTooltipTimeout>>

\* the pointer moves from the page onto span m: its mouseenter listener
PointerEntersSpan(m) ==
    /\ pointer = "page"
    /\ HandleMouseEnter(m)
    /\ pointer' = m

\* the pointer leaves span m, for the tooltip (which shows) or for the page:
\* the span's mouseleave listener
PointerLeavesSpan(m, intoTooltip) ==
    /\ pointer = m
    /\ intoTooltip => tooltipDisplay = "block"
    /\ HandleMouseLeave(m, intoTooltip)
    /\ pointer' = IF intoTooltip THEN "entering" ELSE "page"

\* the pointer comes onto the tooltip, from a span or from the page: the
\* tooltip's mouseenter listener
PointerEntersTooltip ==
    /\ pointer = "entering" \/ (pointer = "page" /\ tooltipDisplay = "block")
    /\ TooltipMouseEnter
    /\ pointer' = "panel"

\* the pointer moves off the tooltip: the tooltip's mouseleave listener (a
\* tooltip hidden under the pointer may get the event or not)
PointerLeavesTooltip ==
    /\ pointer = "panel"
    /\ \/ TooltipMouseLeave
       \/ tooltipDisplay = "none" /\ UNCHANGED tooltipVars
    /\ pointer' = "page"

\* a hide timer fires; no timer runs between the two listeners of one
\* pointer move
HideTimerRuns(latest) ==
    /\ pointer # "entering"
    /\ HideTimerFires(latest)
    /\ UNCHANGED pointer

\* a sendMessage settles; not between the two listeners of one pointer move
FetchSettles(k, outcome) ==
    /\ pointer # "entering"
    /\ SendMessageSettles(k, outcome)
    /\ UNCHANGED pointer

\* a hover over span m, with the age of the record fetchBulletinData takes
\* from cveDataCache
HoverEnters(m) ==
    /\ HandleMouseEnter(m)
    /\ shownAge' = IF BulletinIdOf(m) # "" /\ cveDataCache[BulletinIdOf(m)] # NoRecord
                   THEN pageClock - fetchedAt[BulletinIdOf(m)]
                   ELSE shownAge
    /\ UNCHANGED <<pageClock, fetchedAt>>

\* sendMessage of the k-th waiting hover settles, with the time of the
\* cveDataCache.set
HoverSettles(k, outcome) ==
    /\ SendMessageSettles(k, outcome)
    /\ LET bulletinId == BulletinIdOf(hovers[k])
           result == AfterSendMessage(bulletinId, BulletinTypeOf(hovers[k]), outcome)
       IN fetchedAt' = IF result.cached
                       THEN [fetchedAt EXCEPT ![bulletinId] = pageClock]
                       ELSE fetchedAt
    /\ UNCHANGED <<pageClock, shownAge>>

\* the times that pass between two events of the page: the expiry time of
\* the bulletin cache, or a millisecond more
PageDelays == {CACHE_EXPIRY_MS, CACHE_EXPIRY_MS + 1}

\* time passes on the page
TimePasses(d) ==
    /\ pageClock + d <= MaxPageClock
    /\ pageClock' = pageClock + d
    /\ UNCHANGED <<tooltipVars, fetchedAt, shownAge>>

--------------------------------------------------------------------------
(* The functions of utils.ts and content/utils.ts, each applied to one    *)
(* string                                                                 *)

\* the identifiers detectBulletinType is applied to: every prefix of
\* BULLETIN_TYPE_MAP and some that are in no entry, in upper, lower and
\* mixed case, followed by nothing or by the rest of an identifier
IdPrefixes ==
    {BULLETIN_TYPE_MAP[k][1] : k \in 1..Len(BULLETIN_TYPE_MAP)}
        \cup { <<>>, <<"E", "D", "B">>, <<"E", "D", "B", "-", "X">>,
               <<"E", "D">>, <<"X", "I", "D">>, <<"C", "V", "E">>,
               <<"U", "N", "K", "N", "O", "W", "N", "-">> }

IdRests ==
    { <<>>, <<":", "1", "2", "3", "4", "5">>, <<"2", "0", "2", "3", ":", "1", "2", "3", "4">>,
      <<"2", "0", "2", "4", "-", "1", "2", "3", "4">>, <<":", "i", "d">> }

\* the first character in lower case, the others as they are
MixedCased(s) == [k \in 1..Len(s) |-> IF k = 1 THEN LowerChar(s[k]) ELSE s[k]]

IdInputs ==
    UNION {{p \o r, LowerCased(p \o r), MixedCased(p \o r)} :
              <<p, r>> \in IdPrefixes \X IdRests}

\* the strings escapeHtml is applied to: every string of up to MaxTextLen
\* characters over the five special characters and three others
TextAlphabet == {"&", "<", ">", "\"", "'", "a", ";"}

TextInputs == UNION {[1..k -> TextAlphabet] : k \in 0..MaxTextLen}

\* the hostnames isVulnersHostname is applied to
HostLabels ==
    { <<>>, <<"w", "w", "w", ".">>, <<"a", "p", "i", ".">>,
      <<"d", "e", "e", "p", ".", "s", "u", "b", ".">>,
      <<"n", "o", "t">>, <<"f", "a", "k", "e">>, <<".">> }

HostDomains ==
    { VulnersCom, <<"v", "u", "l", "n", "e", "r", "s", ".", "n", "e", "t">>,
      <<"e", "x", "a", "m", "p", "l", "e", ".", "c", "o", "m">>,
      VulnersCom \o <<".", "e", "v", "i", "l", ".", "o", "r", "g">>, <<>> }

HostInputs ==
    UNION {{l \o d, UpperCased(l \o d),
            [k \in 1..Len(l \o d) |-> IF k % 2 = 1 THEN UpperChar((l \o d)[k])
                                      ELSE (l \o d)[k]]} :
              <<l, d>> \in HostLabels \X HostDomains}

UtilInputs == IdInputs \cup TextInputs \cup HostInputs

NoOutput == <<"not called">>

\* detectBulletinType(utilInput)
DetectBulletinType ==
    /\ utilCall' = "detectBulletinType"
    /\ utilOutput' = detectBulletinType(utilInput)
    /\ UNCHANGED utilInput
    /\ UNCHANGED outsideUtil

\* escapeHtml(utilInput)
EscapeHtml ==
    /\ utilCall' = "escapeHtml"
    /\ utilOutput' = escapeHtml(utilInput)
    /\ UNCHANGED utilInput
    /\ UNCHANGED outsideUtil

\* isVulnersHostname(utilInput)
IsVulnersHostname ==
    /\ utilCall' = "isVulnersHostname"
    /\ utilOutput' = isVulnersHostname(utilInput)
    /\ UNCHANGED utilInput
    /\ UNCHANGED outsideUtil

--------------------------------------------------------------------------
(* CVEHighlighter (content.ts): init, the toggleHighlighting listener and *)
(* the callbacks init sets up.  Of a scan only the fact that it ran is    *)
(* kept.                                                                  *)

\* settings.enabled as chrome.storage.local.get gives it
StoredFlags == {"true", "false", "undefined"}

NoRequest == "none"

\* CVEHighlighter.isVulnersSite, the test isVulnersHostname makes of
\* window.location.hostname
isVulnersSite == isVulnersHostname(locationHostname)

\* CVEHighlighter.init, run once (waitForPageLoad)
HighlighterInit ==
    /\ highlighterPc = "constructed"
    /\ highlighterPc' = "listening"
    /\ highlighterEnabled' = IF isVulnersSite THEN FALSE ELSE storedEnabled # "false"
    /\ IF highlighterEnabled'
       THEN /\ highlighterPatternsLoaded' = TRUE
            /\ lastHighlight' = "scanAndHighlight"
            /\ periodicScan' = TRUE
            /\ observing' = TRUE
       ELSE UNCHANGED <<highlighterPatternsLoaded, lastHighlight, periodicScan, observing>>
    /\ UNCHANGED <<locationHostname, storedEnabled, loadsPending, scanCount, lastRequest,
                   highlighterToggles>>
    /\ UNCHANGED outsideHighlighter

\* the listener of init for a toggleHighlighting message
ToggleHighlighting(requestEnabled) ==
    /\ highlighterPc = "listening"
    /\ highlighterToggles < MaxToggleMessages
    /\ highlighterToggles' = highlighterToggles + 1
    /\ lastRequest' = IF requestEnabled THEN "true" ELSE "false"
    /\ highlighterEnabled' = IF isVulnersSite THEN FALSE ELSE requestEnabled
    /\ IF highlighterEnabled'
       THEN IF ~highlighterPatternsLoaded
            THEN /\ loadsPending' = loadsPending + 1
                 /\ UNCHANGED lastHighlight
            ELSE /\ lastHighlight' = "scanAndHighlight"
                 /\ UNCHANGED loadsPending
       ELSE /\ lastHighlight' = "none"
            /\ UNCHANGED loadsPending
    /\ UNCHANGED <<locationHostname, storedEnabled, highlighterPc, highlighterPatternsLoaded,
                   scanCount, periodicScan, observing>>
    /\ UNCHANGED outsideHighlighter

\* a loadPatterns() the listener started completes and its then() runs
\* scanAndHighlight
LoadThenScan ==
    /\ loadsPending > 0
    /\ loadsPending' = loadsPending - 1
    /\ highlighterPatternsLoaded' = TRUE
    /\ lastHighlight' = "scanAndHighlight"
    /\ UNCHANGED <<locationHostname, storedEnabled, highlighterEnabled, highlighterPc,
                   scanCount, periodicScan, observing, lastRequest, highlighterToggles>>
    /\ UNCHANGED outsideHighlighter

\* the timer of setupPeriodicScan fires
PeriodicScanFires ==
    /\ periodicScan
    /\ scanCount' = scanCount + 1
    /\ lastHighlight' = IF highlighterEnabled THEN "scanAndHighlight" ELSE lastHighlight
    /\ periodicScan' = (highlighterEnabled /\ scanCount' < maxScans)
    /\ UNCHANGED <<locationHostname, storedEnabled, highlighterEnabled, highlighterPc,
                   highlighterPatternsLoaded, loadsPending, observing, lastRequest,
                   highlighterToggles>>
    /\ UNCHANGED outsideHighlighter

\* the MutationObserver of observePageChanges reports added nodes
PageChanges ==
    /\ observing
    /\ lastHighlight' = IF highlighterEnabled THEN "highlightCVEsInNode"
                        ELSE lastHighlight
    /\ UNCHANGED <<locationHostname, storedEnabled, highlighterEnabled, highlighterPc,
                   highlighterPatternsLoaded, loadsPending, scanCount, periodicScan,
                   observing, lastRequest, highlighterToggles>>
    /\ UNCHANGED outsideHighlighter

--------------------------------------------------------------------------
(* Initial states and specifications *)

HighlighterConstructed ==
    /\ highlighterEnabled = TRUE
    /\ highlighterPc = "constructed"
    /\ highlighterPatternsLoaded = FALSE
    /\ loadsPending = 0
    /\ lastHighlight = "none"
    /\ scanCount = 0
    /\ periodicScan = FALSE
    /\ observing = FALSE
    /\ lastRequest = NoRequest
    /\ highlighterToggles = 0

HighlighterIdle ==
    /\ locationHostname = <<>>
    /\ storedEnabled = "undefined"
    /\ HighlighterConstructed

UtilIdle ==
    /\ utilInput = <<>>
    /\ utilCall = "none"
    /\ utilOutput = NoOutput

PointerIdle == pointer = "page"

HoverIdle ==
    /\ pageClock = 0
    /\ fetchedAt = [id \in BulletinIds |-> 0]
    /\ shownAge = 0

TooltipIdle ==
    /\ tooltip = FALSE
    /\ tooltipHtml = NoHTML
    /\ tooltipDisplay = "none"
    /\ currentHighlightedElement = NoElement
    /\ hideTimers = 0
    /\ hideTooltipTimeout = FALSE
    /\ cveDataCache = [id \in BulletinIds |-> NoRecord]
    /\ hovers = <<>>
    /\ lastSettled = NoSettled

MessageIdle ==
    /\ msg = NoMessage
    /\ msgPc = "none"
    /\ keepsChannel = FALSE
    /\ responses = <<>>
    /\ badgeText = [t \in Tabs |-> NoBadgeText]

RetryIdle ==
    /\ maxRetries = MAX_RETRIES
    /\ attempt = 0
    /\ retryPc = "idle"
    /\ lastError = NoError
    /\ retryResult = 0
    /\ thrownError = NoError
    /\ timers = {}
    /\ abortedCtl = {}
    /\ elapsed = 0
    /\ attemptLog = <<>>
    /\ fetchCalls = 0

ScanInitFor(d, response) ==
    /\ patterns = <<>>
    /\ combinedPattern = NullPattern
    /\ patternsLoaded = FALSE
    /\ dom = d
    /\ inViewport = {"main"}
    /\ patternsResponse = response
    /\ processedNodes = {}
    /\ highlightedBulletins = {}
    /\ bulletinTypeCounts = ZeroCounts
    /\ pendingHighlights = <<>>
    /\ visits = << >>
    /\ highlightFlushScheduled = FALSE
    /\ rafQueue = <<>>
    /\ idleCallbacks = <<>>
    /\ idleCallbackId = NoIdleCallback
    /\ visibilityObserver = FALSE
    /\ observed = {}
    /\ pendingOffscreenElements = [e \in ElementSet |-> <<>>]
    /\ badge = -1
    /\ enabled = TRUE
    /\ toggles = 0

ScanIdle == ScanInitFor(DocRepeat, NoPatterns)

CacheIdle ==
    /\ cveCache = [k \in CveIds |-> NoEntry]
    /\ now = 0
    /\ clockAdvances = 0
    /\ reqs = <<>>
    /\ serverSeq = 0

RetryInit ==
    /\ CacheIdle
    /\ ScanIdle
    /\ MessageIdle
    /\ TooltipIdle
    /\ UtilIdle
    /\ HighlighterIdle
    /\ ResultIdle
    /\ MutationIdle
    /\ PointerIdle
    /\ HoverIdle
    /\ maxRetries \in 0..MaxAttemptsArg
    /\ attempt = 0
    /\ retryPc = "idle"
    /\ lastError = NoError
    /\ retryResult = 0
    /\ thrownError = NoError
    /\ timers = {}
    /\ abortedCtl = {}
    /\ elapsed = 0
    /\ attemptLog = <<>>
    /\ fetchCalls = 0

RetryNext ==
    \/ Call /\ UNCHANGED outsideRetry
    \/ \E s \in Statuses : FetchResolves(s) /\ UNCHANGED outsideRetry
    \/ FetchRejects /\ UNCHANGED outsideRetry
    \/ AbortTimerFires /\ UNCHANGED outsideRetry
    \/ BackoffFires /\ UNCHANGED outsideRetry
    \/ Advance /\ UNCHANGED outsideRetry

RetrySpec == RetryInit /\ [][RetryNext]_vars

CacheInit ==
    RetryIdle /\ CacheIdle /\ ScanIdle /\ MessageIdle /\ TooltipIdle /\ UtilIdle
        /\ HighlighterIdle
        /\ ResultIdle
        /\ MutationIdle
        /\ PointerIdle
        /\ HoverIdle

CacheNext ==
    \/ \E id \in CveIds : HandleFetchCVEData(id) /\ UNCHANGED outsideCache
    \/ \E k \in 1..MaxRequests, run \in RetryRuns, hasResult \in BOOLEAN :
            FetchFromAPIReturns(k, run, hasResult) /\ UNCHANGED outsideCache
    \/ \E d \in ClockSteps : Tick(d) /\ UNCHANGED outsideCache

CacheSpec == CacheInit /\ [][CacheNext]_vars

ScanInit ==
    /\ RetryIdle
    /\ CacheIdle
    /\ MessageIdle
    /\ TooltipIdle
    /\ UtilIdle
    /\ HighlighterIdle
    /\ ResultIdle
    /\ MutationIdle
    /\ PointerIdle
    /\ HoverIdle
    /\ \E run \in Runs : ScanInitFor(run[1], run[2])

ScanNext ==
    \/ LoadPatterns /\ UNCHANGED outsideScan
    \/ \E isProcessing \in BOOLEAN, paused \in BOOLEAN :
            ScanAndHighlight(isProcessing, paused) /\ UNCHANGED outsideScan
    \/ \E e \in MutatedElements :
            ScanElementForCVEs(e) /\ UNCHANGED outsideScan
    \/ \E n \in {dom["main"][k].id : k \in 1..Len(dom["main"])} :
            HighlightCVEsInNode(n) /\ UNCHANGED outsideScan
    \/ ScheduleHighlightFlush /\ UNCHANGED outsideScan
    \/ AnimationFrame /\ UNCHANGED outsideScan
    \/ \E k \in 1..MaxQueued, taken \in ChunkSizes :
            IdleCallback(k, taken) /\ UNCHANGED outsideScan
    \/ \E entries \in SUBSET ElementSet :
            IntersectionCallback(entries) /\ UNCHANGED outsideScan
    \/ \E e \in ElementSet : Scroll(e) /\ UNCHANGED outsideScan
    \/ RemoveAllHighlights /\ UNCHANGED outsideScan
    \/ \E isProcessing \in BOOLEAN, paused \in BOOLEAN :
            EnableHighlighting(isProcessing, paused) /\ UNCHANGED outsideScan

ScanSpec == ScanInit /\ [][ScanNext]_vars

\* the text nodes that wait in pendingHighlights for the next flush and
\* stand under an element the page changes
PendingNodes ==
    {n \in {pendingHighlights[k].oldNode : k \in 1..Len(pendingHighlights)} :
        ParentOf(dom, n) \in MutatedElements}

\* the page removes a text node for which a replacement is queued, before
\* the flush runs
PageRemovesNode(n) ==
    /\ n \in PendingNodes
    /\ dom' = [dom EXCEPT ![ParentOf(dom, n)] = SelectSeq(@, LAMBDA c : c.id # n)]
    /\ UNCHANGED <<patternVars, inViewport, patternsResponse, workVars, queueVars,
                   callerVars>>

\* the page moves a text node for which a replacement is queued under
\* element e, before the flush runs
PageMovesNode(n, e) ==
    /\ n \in PendingNodes
    /\ e # ParentOf(dom, n)
    /\ LET from == ParentOf(dom, n)
           node == TextNode(n, TextContent(dom, n))
       IN dom' = [dom EXCEPT ![from] = SelectSeq(@, LAMBDA c : c.id # n),
                             ![e] = Append(@, node)]
    /\ UNCHANGED <<patternVars, inViewport, patternsResponse, workVars, queueVars,
                   callerVars>>

\* the text nodes that wait in the lists of the idle callbacks
IdleNodes ==
    UNION {{idleCallbacks[k][j] : j \in 1..Len(idleCallbacks[k])} :
              k \in 1..Len(idleCallbacks)}

\* the text nodes the page's own script removes while they wait
RemovedByPage == {<<2>>}

\* the page removes the text node an idle callback will take next
PageRemovesQueuedNode(k) ==
    /\ k \in 1..Len(idleCallbacks)
    /\ idleCallbacks[k] # <<>>
    /\ IsConnected(dom, Head(idleCallbacks[k]))
    /\ Head(idleCallbacks[k]) \in RemovedByPage
    /\ dom' = [dom EXCEPT ![ParentOf(dom, Head(idleCallbacks[k]))] =
                      SelectSeq(@, LAMBDA c : c.id # Head(idleCallbacks[k]))]
    /\ UNCHANGED <<patternVars, inViewport, patternsResponse, workVars, queueVars,
                   callerVars>>

\* the numbers of nodes a deadline lets processChunk take: none (no idle
\* time is left when the callback starts) or a whole slice
DrainChunks == {0, IMMEDIATE_OFFSCREEN_SLICE}

\* the scanner on a page that removes or moves text nodes between a match
\* and the flush
RaceNext ==
    \/ LoadPatterns /\ UNCHANGED outsideScan
    \/ ScanAndHighlight(FALSE, FALSE) /\ UNCHANGED outsideScan
    \/ \E e \in MutatedElements :
            ScanElementForCVEs(e) /\ UNCHANGED outsideScan
    \/ AnimationFrame /\ UNCHANGED outsideScan
    \/ \E k \in 1..MaxQueued, taken \in ChunkSizes :
            IdleCallback(k, taken) /\ UNCHANGED outsideScan
    \/ \E n \in PendingNodes : PageRemovesNode(n) /\ UNCHANGED outsideScan
    \/ \E n \in PendingNodes, e \in ElementSet :
            PageMovesNode(n, e) /\ UNCHANGED outsideScan

RaceSpec == ScanInit /\ [][RaceNext]_vars

\* the runs of the scanner on pages with text off-screen
DrainRuns == Runs \cup {<<DocLong, NoPatterns>>}

DrainInit ==
    /\ RetryIdle
    /\ CacheIdle
    /\ MessageIdle
    /\ TooltipIdle
    /\ UtilIdle
    /\ HighlighterIdle
    /\ ResultIdle
    /\ MutationIdle
    /\ PointerIdle
    /\ HoverIdle
    /\ \E run \in DrainRuns : ScanInitFor(run[1], run[2])

\* the chain of idle callbacks while highlighting stays on
DrainNext ==
    \/ LoadPatterns /\ UNCHANGED outsideScan
    \/ ScanAndHighlight(FALSE, FALSE) /\ UNCHANGED outsideScan
    \/ AnimationFrame /\ UNCHANGED outsideScan
    \/ \E k \in 1..MaxQueued, taken \in DrainChunks :
            IdleCallback(k, taken) /\ UNCHANGED outsideScan
    \/ \E k \in 1..MaxQueued : PageRemovesQueuedNode(k) /\ UNCHANGED outsideScan
    \/ \E e \in ElementSet : Scroll(e) /\ UNCHANGED outsideScan
    \/ \E entries \in SUBSET ElementSet :
            IntersectionCallback(entries) /\ UNCHANGED outsideScan

\* a waiting idle callback runs with idle time left: its list loses the
\* nodes processChunk shifts, and it waits again with the rest or is gone
ProcessChunkRuns ==
    \E k \in 1..Len(idleCallbacks), taken \in DrainChunks \ {0} :
        LET rest == SubSeq(idleCallbacks[k], Min(taken, Len(idleCallbacks[k])) + 1,
                           Len(idleCallbacks[k]))
        IN idleCallbacks' = IF rest # <<>>
                            THEN Append(RemoveAt(idleCallbacks, k), rest)
                            ELSE RemoveAt(idleCallbacks, k)

\* the browser runs a requested idle callback in the end, and in the end
\* with idle time left
DrainSpec ==
    /\ DrainInit
    /\ [][DrainNext]_vars
    /\ WF_idleCallbacks(ProcessChunkRuns)

\* the owner's scanAndHighlight calls and what they return
CallerNext ==
    \/ LoadPatterns /\ UNCHANGED <<outsideCaller, resultVars>>
    \/ \E isProcessing \in BOOLEAN, paused \in BOOLEAN :
            CallScanAndHighlight(isProcessing, paused) /\ UNCHANGED outsideCaller
    \/ \E e \in MutatedElements :
            ScanElementForCVEs(e) /\ UNCHANGED <<outsideCaller, resultVars>>
    \/ AnimationFrame /\ UNCHANGED <<outsideCaller, resultVars>>
    \/ \E e \in ElementSet : Scroll(e) /\ UNCHANGED <<outsideCaller, resultVars>>
    \/ \E k \in 1..MaxQueued, taken \in ChunkSizes :
            IdleCallback(k, taken) /\ UNCHANGED <<outsideCaller, resultVars>>

CallerSpec == ScanInit /\ [][CallerNext]_vars

MutationInit ==
    /\ RetryIdle
    /\ CacheIdle
    /\ ScanIdle
    /\ MessageIdle
    /\ TooltipIdle
    /\ UtilIdle
    /\ HighlighterIdle
    /\ ResultIdle
    /\ MutationIdle
    /\ PointerIdle
    /\ HoverIdle

\* mutation batches arriving over time
StormNext ==
    \E advance \in Advances : DetectMutationStorm(advance) /\ UNCHANGED outsideMutation

StormSpec == MutationInit /\ [][StormNext]_vars

\* mutation batches and records piling up, and the delay chosen for them
DebounceNext ==
    \/ DetectMutationStorm(0) /\ UNCHANGED outsideMutation
    \/ \E k \in BatchSizes : AddPendingMutations(k) /\ UNCHANGED outsideMutation
    \/ ClearPendingMutations /\ UNCHANGED outsideMutation
    \/ GetAdaptiveDebounceMs /\ UNCHANGED outsideMutation

DebounceSpec == MutationInit /\ [][DebounceNext]_vars

MessageInit ==
    /\ RetryIdle
    /\ ScanIdle
    /\ MessageIdle
    /\ TooltipIdle
    /\ UtilIdle
    /\ HighlighterIdle
    /\ ResultIdle
    /\ MutationIdle
    /\ PointerIdle
    /\ HoverIdle
    /\ reqs = <<>>
    /\ clockAdvances = 0
    /\ \/ cveCache = [k \in CveIds |-> NoEntry] /\ serverSeq = 0 /\ now = 0
       \/ /\ cveCache = CachedAtZero
          /\ serverSeq = 1
          /\ now \in {CACHE_EXPIRY_MS - 1, CACHE_EXPIRY_MS}

MessageNext ==
    \/ \E request \in Messages : OnMessage(request)
    \/ \E s \in Statuses :
            msgPc = "fetching" /\ FetchResolves(s) /\ UNCHANGED outsideRetry
    \/ msgPc = "fetching" /\ FetchRejects /\ UNCHANGED outsideRetry
    \/ AbortTimerFires /\ UNCHANGED outsideRetry
    \/ BackoffFires /\ UNCHANGED outsideRetry
    \/ Advance /\ UNCHANGED outsideRetry
    \/ \E body \in Bodies : PromiseSettles(body)

MessageSpec == MessageInit /\ [][MessageNext]_vars

\* the browser delivers a pending fetch's outcome or fires its abort timer,
\* timers fire when due, time passes, and a body read settles
MessageFairSpec ==
    /\ MessageSpec
    /\ WF_vars(AbortTimerFires /\ UNCHANGED outsideRetry)
    /\ WF_vars(BackoffFires /\ UNCHANGED outsideRetry)
    /\ WF_vars(Advance /\ UNCHANGED outsideRetry)
    /\ WF_vars(\E body \in Bodies : PromiseSettles(body))

TooltipInit ==
    RetryIdle /\ CacheIdle /\ ScanIdle /\ MessageIdle /\ TooltipIdle /\ UtilIdle
        /\ HighlighterIdle
        /\ ResultIdle
        /\ MutationIdle
        /\ PointerIdle
        /\ HoverIdle

TooltipNext ==
    \/ \E m \in Spans : HandleMouseEnter(m) /\ UNCHANGED outsideTooltip
    \/ \E m \in Spans, intoTooltip \in BOOLEAN :
            HandleMouseLeave(m, intoTooltip) /\ UNCHANGED outsideTooltip
    \/ \E latest \in BOOLEAN : HideTimerFires(latest) /\ UNCHANGED outsideTooltip
    \/ TooltipMouseEnter /\ UNCHANGED outsideTooltip
    \/ TooltipMouseLeave /\ UNCHANGED outsideTooltip
    \/ \E k \in 1..MaxPending, outcome \in SendOutcomes :
            SendMessageSettles(k, outcome) /\ UNCHANGED outsideTooltip

TooltipSpec == TooltipInit /\ [][TooltipNext]_vars

\* the tooltip under a pointer that is in one place at a time: the events
\* come in the order the pointer's way gives them
PointerNext ==
    \/ \E m \in Spans : PointerEntersSpan(m) /\ UNCHANGED outsidePointer
    \/ \E m \in Spans, intoTooltip \in BOOLEAN :
            PointerLeavesSpan(m, intoTooltip) /\ UNCHANGED outsidePointer
    \/ PointerEntersTooltip /\ UNCHANGED outsidePointer
    \/ PointerLeavesTooltip /\ UNCHANGED outsidePointer
    \/ \E latest \in BOOLEAN : HideTimerRuns(latest) /\ UNCHANGED outsidePointer
    \/ \E k \in 1..MaxPending, outcome \in SendOutcomes :
            FetchSettles(k, outcome) /\ UNCHANGED outsidePointer

PointerSpec == TooltipInit /\ [][PointerNext]_vars

\* hovers over a page that stays open while time passes
HoverNext ==
    \/ \E m \in Spans : HoverEnters(m) /\ UNCHANGED outsideHover
    \/ \E k \in 1..MaxPending, outcome \in SendOutcomes :
            HoverSettles(k, outcome) /\ UNCHANGED outsideHover
    \/ \E d \in PageDelays : TimePasses(d) /\ UNCHANGED outsideHover

HoverSpec == TooltipInit /\ [][HoverNext]_vars

UtilInit ==
    /\ RetryIdle
    /\ CacheIdle
    /\ ScanIdle
    /\ MessageIdle
    /\ TooltipIdle
    /\ HighlighterIdle
    /\ ResultIdle
    /\ MutationIdle
    /\ PointerIdle
    /\ HoverIdle
    /\ utilInput \in UtilInputs
    /\ utilCall = "none"
    /\ utilOutput = NoOutput

UtilNext ==
    \/ DetectBulletinType
    \/ EscapeHtml
    \/ IsVulnersHostname

UtilSpec == UtilInit /\ [][UtilNext]_vars

HighlighterSpecInit ==
    /\ RetryIdle
    /\ CacheIdle
    /\ ScanIdle
    /\ MessageIdle
    /\ TooltipIdle
    /\ UtilIdle
    /\ ResultIdle
    /\ MutationIdle
    /\ PointerIdle
    /\ HoverIdle
    /\ locationHostname \in HostInputs
    /\ storedEnabled \in StoredFlags
    /\ HighlighterConstructed

HighlighterNext ==
    \/ HighlighterInit
    \/ \E requestEnabled \in BOOLEAN : ToggleHighlighting(requestEnabled)
    \/ LoadThenScan
    \/ PeriodicScanFires
    \/ PageChanges

HighlighterSpec == HighlighterSpecInit /\ [][HighlighterNext]_vars

--------------------------------------------------------------------------
(* Claims about fetchWithRetry, checked under RetrySpec *)

LogStatuses == [k \in 1..Len(attemptLog) |-> attemptLog[k].status]

\* an attempt that ended in a 5xx status, a network failure or a timeout
FailedAttempt(e) ==
    \/ e.kind \in {"network", "timeout"}
    \/ e.kind = "response" /\ e.status >= 500

SuccessOr4xx(e) ==
    /\ e.kind = "response"
    /\ (e.status \in 200..299 \/ e.status \in 400..499)

\* the error an attempt's outcome stands for
ErrorOf(e) ==
    IF e.kind = "response" THEN [kind |-> "server", status |-> e.status]
    ELSE [kind |-> e.kind, status |-> 0]

\* C1: a further attempt is started only after an attempt that ended in a
\* 5xx status, a network failure or a timeout; no more than maxRetries
\* attempts are started; the call stops at the first attempt that yields a
\* success or a 4xx status and returns that response; [500, 503, 200] gives
\* 3 calls and a success, a single 404 gives 1 call.
C1_RetryPolicy ==
    /\ fetchCalls <= maxRetries
    /\ fetchCalls = Len(attemptLog) + (IF retryPc = "fetch" THEN 1 ELSE 0)
    /\ \A k \in 1..Len(attemptLog) :
        /\ k < fetchCalls => FailedAttempt(attemptLog[k])
        /\ SuccessOr4xx(attemptLog[k]) =>
              /\ k = Len(attemptLog) /\ fetchCalls = k
              /\ retryPc = "returned" /\ retryResult = attemptLog[k].status
    /\ LogStatuses = <<500, 503, 200>> =>
          fetchCalls = 3 /\ retryPc = "returned" /\ retryResult = 200
    /\ LogStatuses = <<404>> => fetchCalls = 1 /\ retryPc = "returned"

C1_Witness ==
    /\ LogStatuses = <<500, 503, 200>>
    /\ retryPc = "returned"
    /\ fetchCalls = 3

\* C8: when all maxRetries attempts end in a 5xx status, a network failure
\* or a timeout the call rejects with the error of the last attempt, and a
\* call that resolves resolves with the response its last attempt produced.
C8_LastErrorSurfaces ==
    /\ retryPc = "thrown" =>
          /\ Len(attemptLog) = maxRetries /\ fetchCalls = maxRetries
          /\ \A k \in 1..Len(attemptLog) : FailedAttempt(attemptLog[k])
          /\ maxRetries > 0 => thrownError = ErrorOf(attemptLog[maxRetries])
    /\ (/\ maxRetries > 0
        /\ Len(attemptLog) = maxRetries
        /\ \A k \in 1..Len(attemptLog) : FailedAttempt(attemptLog[k]))
          => retryPc = "thrown"
    /\ retryPc = "returned" =>
          /\ attemptLog # <<>>
          /\ attemptLog[Len(attemptLog)].kind = "response"
          /\ attemptLog[Len(attemptLog)].status = retryResult
          /\ ~FailedAttempt(attemptLog[Len(attemptLog)])

C8_Witness ==
    /\ retryPc = "thrown"
    /\ maxRetries = 3
    /\ attemptLog[1].kind = "network"
    /\ attemptLog[2].kind = "timeout"
    /\ attemptLog[3].kind = "response"
    /\ thrownError = [kind |-> "server", status |-> 503]

C10_PerAttemptTimeout ==
    /\ \A t \in timers :
          t.kind = "abort" =>
              /\ retryPc = "fetch" /\ t.attempt = attempt
              /\ t.left + elapsed = 10000
    /\ retryPc = "fetch" =>
          Cardinality({t \in timers : t.kind = "abort"}) = 1
    /\ \A k \in 1..Len(attemptLog) :
        LET e == attemptLog[k] IN
        /\ e.kind = "timeout" =>
              /\ e.abortedBy = k - 1
              /\ e.age = 10000
              /\ e.wait = (IF k < maxRetries THEN Pow2(k - 1) * 1000 ELSE 0)
              /\ k < maxRetries => fetchCalls > k \/ retryPc = "sleep"
        /\ e.kind # "timeout" => e.abortedBy = -1 /\ e.age <= 10000
    /\ \A c \in abortedCtl : c + 1 <= Len(attemptLog) /\ attemptLog[c + 1].kind = "timeout"

C10_Witness ==
    /\ Len(attemptLog) = 2
    /\ attemptLog[1].kind = "timeout"
    /\ attemptLog[2].kind = "response" /\ attemptLog[2].status = 200
    /\ retryPc = "returned"
    /\ timers = {}

--------------------------------------------------------------------------
(* Claims about the Background cache, checked under CacheSpec *)

\* C2: a request for X that finds an entry stored at T with t - T < 3600000
\* is answered with that entry's record and starts no fetch; one that finds
\* an entry with t - T >= 3600000 starts exactly one fetch, and the record
\* that fetch yields replaces the entry.
C2_CacheTTL ==
    /\ \A k \in 1..Len(reqs) :
        LET r == reqs[k]
            e == r.sawEntry IN
        e # NoEntry =>
            /\ r.arrivedAt - e.timestamp < 3600000 =>
                  /\ r.pc = "done" /\ r.response = e.data
                  /\ r.fetches = 0 /\ r.stored = NoEntry
            /\ r.arrivedAt - e.timestamp >= 3600000 =>
                  /\ r.fetches = 1
                  /\ r.pc = "done" /\ r.response.status = "Published" =>
                        /\ r.stored.data = r.response
                        /\ r.stored.data # e.data
                        /\ r.stored.timestamp >= r.arrivedAt
                  /\ r.pc = "done" /\ r.response.status # "Published" =>
                        r.stored = NoEntry
    /\ \A id \in CveIds :
        \* the entry of X is the one the last successful fetch of X stored
        /\ cveCache[id] # NoEntry =>
              \E k \in 1..Len(reqs) : reqs[k].cveId = id /\ reqs[k].stored = cveCache[id]
        /\ \A k \in 1..Len(reqs) :
              reqs[k].cveId = id /\ reqs[k].stored # NoEntry =>
                  /\ cveCache[id].timestamp >= reqs[k].stored.timestamp
                  /\ cveCache[id].data.serial >= reqs[k].stored.data.serial

C2_Witness ==
    /\ Len(reqs) = 2
    /\ reqs[1].cveId = "CVE-1" /\ reqs[2].cveId = "CVE-1"
    /\ reqs[1].stored # NoEntry
    /\ reqs[2].sawEntry = reqs[1].stored
    /\ reqs[2].arrivedAt - reqs[1].stored.timestamp = 3600000
    /\ reqs[2].fetches = 1 /\ reqs[2].stored = cveCache["CVE-1"]
    /\ reqs[2].stored # reqs[1].stored

\* C3 as stated: two fetches for one identifier are never started less than
\* one hour apart.
C3_OneFetchPerWindow ==
    \A j, k \in 1..Len(reqs) :
        (/\ j < k
         /\ reqs[j].cveId = reqs[k].cveId
         /\ reqs[j].fetches = 1 /\ reqs[k].fetches = 1)
            => reqs[k].arrivedAt - reqs[j].arrivedAt >= 3600000

\* C3 as amended: a request starts at most one fetch; it starts none when a
\* result for its identifier was stored less than one hour before it was
\* handled; a request handled while the cache holds no entry for its
\* identifier (no fetch has succeeded yet, or one is still in flight) starts
\* a fetch of its own.
C3_OneFetchPerWindowAfterStore ==
    \A k \in 1..Len(reqs) :
        /\ reqs[k].fetches \in {0, 1}
        /\ \A j \in reqs[k].doneBefore :
              (/\ reqs[j].cveId = reqs[k].cveId
               /\ reqs[j].stored # NoEntry
               /\ reqs[k].arrivedAt - reqs[j].stored.timestamp < 3600000)
                  => reqs[k].fetches = 0
        /\ (\A j \in reqs[k].doneBefore :
               reqs[j].cveId = reqs[k].cveId => reqs[j].stored = NoEntry)
              => reqs[k].fetches = 1

C3_Witness ==
    /\ Len(reqs) = 2
    /\ reqs[1].cveId = "cve-1" /\ reqs[2].cveId = "cve-1"
    /\ reqs[1].fetches = 1 /\ reqs[1].stored # NoEntry
    /\ reqs[2].doneBefore = {1}
    /\ reqs[2].arrivedAt - reqs[1].stored.timestamp = 3599999
    /\ reqs[2].fetches = 0 /\ reqs[2].response = reqs[1].stored.data

\* C15: a cache hit never refreshes an entry.  A step that answers a request
\* from the cache leaves the cache as it was, an entry changes only when a
\* fetched record is stored, and every request answered from the cache was
\* handled less than one hour after the write of the entry it was served.
C15_HitDoesNotRefresh ==
    /\ [][/\ Len(reqs') > Len(reqs) => cveCache' = cveCache
          /\ \A id \in CveIds :
                cveCache'[id] # cveCache[id] =>
                    \E k \in 1..Len(reqs) :
                        /\ reqs[k].pc = "fetch" /\ reqs'[k].pc = "done"
                        /\ reqs'[k].stored = cveCache'[id]
                        /\ cveCache'[id].timestamp = now]_vars
    /\ [](\A k \in 1..Len(reqs) :
             (reqs[k].pc = "done" /\ reqs[k].fetches = 0) =>
                 \E j \in reqs[k].doneBefore :
                     /\ reqs[j].stored = reqs[k].sawEntry
                     /\ reqs[j].stored.data = reqs[k].response
                     /\ reqs[k].arrivedAt - reqs[j].stored.timestamp < CACHE_EXPIRY_MS)

\* an entry written at time 0 and read at 3599999 is still the entry written
\* at time 0, and is not fresh, at 3600000
C15_Witness ==
    /\ Len(reqs) = 2
    /\ reqs[1].stored # NoEntry /\ reqs[1].stored.timestamp = 0
    /\ reqs[2].fetches = 0 /\ reqs[2].arrivedAt = CACHE_EXPIRY_MS - 1
    /\ reqs[2].response = reqs[1].stored.data
    /\ now = CACHE_EXPIRY_MS
    /\ cveCache[reqs[1].cveId] = reqs[1].stored
    /\ ~CacheIsFresh(cveCache[reqs[1].cveId], now)

\* C32: the timestamp of an identifier's entry never decreases and an entry
\* once stored is never removed; when an entry changes, the new entry is
\* whole the record the returning fetch yielded, stamped with the time of the
\* write, whatever the entry before held
C32_WritesNeverGoBack ==
    [][\A id \in CveIds :
          /\ cveCache[id] # NoEntry =>
                /\ cveCache'[id] # NoEntry
                /\ cveCache'[id].timestamp >= cveCache[id].timestamp
          /\ cveCache'[id] # cveCache[id] =>
                \E k \in 1..Len(reqs) :
                    /\ reqs[k].pc = "fetch" /\ reqs'[k].pc = "done"
                    /\ CacheKey(reqs[k].cveId) = id
                    /\ cveCache'[id] = [data |-> reqs'[k].response, timestamp |-> now']
                    /\ reqs'[k].response = ProcessVulnersData(reqs[k].cveId, serverSeq')]_vars

\* two fetches for one identifier overlapped, both stored their record, and
\* the cache holds the one written later
C32_Witness ==
    /\ Len(reqs) = 2
    /\ reqs[1].cveId = reqs[2].cveId
    /\ reqs[2].doneBefore = {}
    /\ reqs[1].stored # NoEntry /\ reqs[2].stored # NoEntry
    /\ reqs[1].stored.timestamp > reqs[2].stored.timestamp
    /\ cveCache[CacheKey(reqs[1].cveId)] = reqs[1].stored

\* C34: a request that arrives while an entry stored for the same identifier,
\* letter case aside, is less than one hour old starts no network fetch, and
\* the identifiers that differ only in letter case hold one entry between
\* them
C34_CaseInsensitiveCache ==
    /\ \A k \in 1..Len(reqs) : \A j \in reqs[k].doneBefore :
          (/\ ToUpperCase(reqs[j].cveId) = ToUpperCase(reqs[k].cveId)
           /\ reqs[j].stored # NoEntry
           /\ reqs[k].arrivedAt - reqs[j].stored.timestamp < CACHE_EXPIRY_MS)
              => reqs[k].fetches = 0
    /\ \A id, other \in CveIds :
          (/\ ToUpperCase(id) = ToUpperCase(other)
           /\ cveCache[id] # NoEntry
           /\ cveCache[other] # NoEntry) => id = other

--------------------------------------------------------------------------
(* Claims about the message listener, checked under MessageSpec *)

\* the fallback record of fetchCVEData for the identifier of the message
FallbackOf(cveId) == [id |-> cveId, status |-> "Unknown", sources |-> <<>>, serial |-> 0]

\* C11: a fetch-bulletin-data message whose fetch failed is answered by the
\* fallback record.  When fetchWithRetry threw (every one of MAX_RETRIES
\* attempts ended in a 5xx status, a network failure or a timeout) or returned
\* a response that is not ok (a 4xx among them, after which no attempt was
\* made), the one response sent is {data: fallback} with the id of the
\* request, status 'Unknown' and no sources, and nothing is cached; no answer
\* is an error.
C11_FailureGivesFallback ==
    /\ \A k \in 1..Len(responses) : responses[k].kind \in {"data", "patterns"}
    /\ (/\ msg.action = "fetchCVEData" /\ msgPc = "answered"
        /\ \/ retryPc = "thrown"
           \/ retryPc = "returned" /\ ~ResponseOk(retryResult))
          => /\ responses = <<DataResponse(FallbackOf(msg.cveId))>>
             /\ cveCache[msg.cveId] \in {NoEntry, CachedAtZero[msg.cveId]}
             /\ retryPc = "thrown" =>
                    /\ Len(attemptLog) = MAX_RETRIES
                    /\ \A k \in 1..Len(attemptLog) : FailedAttempt(attemptLog[k])
             /\ (retryPc = "returned" /\ retryResult \in 400..499) =>
                    /\ attemptLog[Len(attemptLog)].status = retryResult
                    /\ fetchCalls = Len(attemptLog)

\* a request for cve-1 answered by the fallback after a 500, a network
\* failure and a timeout
C11_Witness ==
    /\ msg.action = "fetchCVEData" /\ msg.cveId = "cve-1" /\ msgPc = "answered"
    /\ retryPc = "thrown"
    /\ Len(attemptLog) = 3
    /\ attemptLog[1].status = 500
    /\ attemptLog[2].kind = "network"
    /\ attemptLog[3].kind = "timeout"
    /\ responses = <<[kind |-> "data", patterns |-> "",
                      data |-> [id |-> "cve-1", status |-> "Unknown",
                                sources |-> <<>>, serial |-> 0]]>>

\* the message kinds the listener answers asynchronously
AsyncActions == {"fetchCVEData", "fetchPatterns"}

\* C12 (as stated): every fetch-bulletin-data and fetch-patterns message the
\* listener handles is eventually answered, and by one response only,
\* whatever its payload and however its fetch goes.
C12_EveryMessageAnswered ==
    /\ [](Len(responses) <= 1)
    /\ [](msg.action \in AsyncActions => <>(Len(responses) = 1))

\* C12, for the messages the listener keeps the channel open for (every
\* fetch-patterns message, and a fetch-bulletin-data message with a non-empty
\* cveId): exactly one response is eventually sent.
C12_AnsweredWhenChannelKept ==
    /\ [](Len(responses) <= 1)
    /\ [](keepsChannel => <>(Len(responses) = 1))
    /\ []((msg.action \in AsyncActions /\ ~(msg.action = "fetchCVEData" /\ msg.cveId = ""))
             => keepsChannel)

RECURSIVE DecimalValue(_)
\* the number a sequence of decimal digits denotes
DecimalValue(text) ==
    IF text = <<>> THEN 0
    ELSE 10 * DecimalValue(SubSeq(text, 1, Len(text) - 1))
         + (CHOOSE d \in 0..9 : DecimalDigits[d + 1] = text[Len(text)])

\* C19: an update-badge message from a sender with a tab sets the badge text
\* of that tab, and of no other, to the empty string for count 0, to the
\* decimal numeral of the count for 1..99 and to '99+' for 100 and more; a
\* message from a sender without a tab sets no badge text.
C19_BadgeTextOfCount ==
    (msg.action = "updateBadge" /\ msgPc = "returned") =>
        /\ \A t \in Tabs : t # msg.tab => badgeText[t] = NoBadgeText
        /\ (msg.tab # NoTab /\ msg.count # NoCount) =>
              LET text == badgeText[msg.tab] IN
              /\ msg.count = 0 => text = <<>>
              /\ msg.count \in 1..99 =>
                    /\ Len(text) \in 1..2
                    /\ \A k \in 1..Len(text) : text[k] \in DigitChars
                    /\ text[1] # "0"
                    /\ DecimalValue(text) = msg.count
              /\ msg.count >= 100 => text = <<"9", "9", "+">>

\* count 99 from tab 2 gives the text 99, and tab 1 keeps no badge text
C19_Witness ==
    /\ msg = [action |-> "updateBadge", cveId |-> "", count |-> 99, tab |-> 2]
    /\ msgPc = "returned"
    /\ badgeText[2] = <<"9", "9">>
    /\ badgeText[1] = <<"unset">>

\* C16: once loadPatterns has completed there is at least one pattern, and
\* when the response carries no list, an empty list or only entries that do
\* not compile, the patterns are exactly the built-in CVE pattern
C16_AlwaysAPattern ==
    patternsLoaded =>
        /\ Len(patterns) >= 1
        /\ (~patternsResponse.isArray \/ ParsePatterns(patternsResponse.patterns) = <<>>)
              => patterns = <<CVE_PATTERN>>

\* every text node of the page that no flush inserted has been handled, and
\* nothing is queued: the scanner is at rest after its flushes
AtRestAfterFlush ==
    /\ enabled
    /\ toggles = 0
    /\ patternsLoaded
    /\ pendingHighlights = <<>>
    /\ rafQueue = <<>>
    /\ idleCallbacks = <<>>
    /\ \A e \in ElementSet : pendingOffscreenElements[e] = <<>>
    /\ \E e \in ElementSet : \E k \in 1..Len(dom[e]) : dom[e][k].span
    /\ \A e \in ElementSet : \A k \in 1..Len(dom[e]) :
          (~dom[e][k].span /\ Len(dom[e][k].id) = 1) => dom[e][k].id \in processedNodes

\* C21: once the scanner is at rest after its flushes, a further
\* scanAndHighlight or scanElementForCVEs, with no page mutation in between,
\* queues no replacement and no callback: the nodes the flush inserted do
\* not set the scanner off again
C21_OwnWritesDoNotRetrigger ==
    [][AtRestAfterFlush =>
          /\ pendingHighlights' = <<>>
          /\ rafQueue' = <<>>
          /\ idleCallbacks' = <<>>]_vars

\* the step in which the animation frame runs flushPendingHighlights
FlushStep ==
    /\ rafQueue # <<>>
    /\ Head(rafQueue).kind = "flush"
    /\ rafQueue' = Tail(rafQueue)

\* C22: the flush applies a queued replacement exactly when the text node
\* still has the recorded parent: then the fragment stands where the node
\* was; a node that was removed or moved is left as it is and none of its
\* fragment enters the document; either way the pending list is empty after
\* the flush
C22_FlushChecksParent ==
    [][FlushStep =>
          /\ pendingHighlights' = <<>>
          /\ \A k \in 1..Len(pendingHighlights) :
                LET p == pendingHighlights[k] IN
                IF ParentOf(dom, p.oldNode) = p.parent
                THEN /\ ~IsConnected(dom', p.oldNode)
                     /\ \A j \in 1..Len(p.fragment) :
                           ParentOf(dom', p.fragment[j].id) = p.parent
                ELSE /\ ParentOf(dom', p.oldNode) = ParentOf(dom, p.oldNode)
                     /\ \A j \in 1..Len(p.fragment) :
                           ~IsConnected(dom', p.fragment[j].id)]_vars

\* a flush has run and skipped every replacement it held: identifiers were
\* counted and reported, and the page has no marker
C22_Witness ==
    /\ highlightedBulletins # {}
    /\ pendingHighlights = <<>>
    /\ rafQueue = <<>>
    /\ badge > 0
    /\ Markers(dom) = {}
    /\ \E n \in processedNodes : ~IsConnected(dom, n)

\* the identifiers that have a marker in the document
MarkedIdentifiers(d) == {c.text : c \in Markers(d)}

\* C38: when no replacement is pending, the size of highlightedBulletins,
\* which the badge reports, is the number of distinct identifiers that have a
\* marker in the document, also after a flush that skipped the replacements of
\* text nodes the page had removed (the page removes text nodes only, never a
\* marker)
C38_BadgeCountsMarkedIdentifiers ==
    pendingHighlights = <<>> =>
        Cardinality(highlightedBulletins) = Cardinality(MarkedIdentifiers(dom))

\* the pages the scanner is run on
LoadedPages == {run[1] : run \in Runs}

\* C39: once highlighting has been turned off with no replacement left
\* pending, the text of every element is, character for character, the text
\* the page was loaded with
C39_DisableRestoresText ==
    (~enabled /\ pendingHighlights = <<>>) =>
        \E page \in LoadedPages :
            \A e \in ElementSet : ConcatText(dom[e]) = ConcatText(page[e])

\* the flush callbacks waiting in an animation-frame queue
FlushCallbacksIn(queue) == {k \in 1..Len(queue) : queue[k].kind = "flush"}

\* C23: a marker enters the document only in the flush step, and a step that
\* queues a replacement leaves the document as it is; at most one flush
\* callback waits at any moment; a flush sends one badge update, the number
\* of distinct identifiers, however many replacements it commits
C23_WritesOnlyInFlush ==
    [][/\ (Markers(dom') \ Markers(dom) # {}) => FlushStep
       /\ Len(pendingHighlights') > Len(pendingHighlights) => dom' = dom
       /\ Cardinality(FlushCallbacksIn(rafQueue')) <= 1
       /\ FlushStep => badge' = Cardinality(highlightedBulletins)]_vars

\* after a flush that committed replacements in two elements: markers stand
\* in both, nothing is pending, and the badge shows the one identifier
C23_Witness ==
    /\ toggles = 0
    /\ pendingHighlights = <<>>
    /\ FlushCallbacksIn(rafQueue) = {}
    /\ \A e \in ElementSet : \E k \in 1..Len(dom[e]) : dom[e][k].span
    /\ Cardinality(highlightedBulletins) = 1
    /\ badge = 1

\* the step in which a scanAndHighlight call returns to the owner
ScanReturns == scanResult' # scanResult /\ scanResult'.args # <<>>

\* C24: scanAndHighlight called with the already-processing flag set walks
\* nothing and changes nothing, returns the flag still set, and asks for a
\* later rescan
C24_ProcessingGuard ==
    [][(ScanReturns /\ scanResult'.args[1]) =>
          /\ UNCHANGED scanVars
          /\ scanResult'.isProcessing
          /\ scanResult'.needsRescan]_vars

\* C25: scanAndHighlight called before the pause deadline does no scan work
\* (nothing queued, processed or counted, no observer or callback set up,
\* no badge update) and asks for a later rescan
C25_PauseWindow ==
    [][(ScanReturns /\ scanResult'.args[2]) =>
          /\ UNCHANGED scanVars
          /\ scanResult'.needsRescan]_vars

\* C26: after removeAllHighlights nothing of the scanner's bookkeeping is
\* left: no processed node, identifier or count, no pending replacement, no
\* queued off-screen node, no mutation timestamp or pending mutation record,
\* the visibility observer is disconnected and no idle callback waits
C26_RemoveAllClearsEverything ==
    [][(enabled /\ ~enabled') =>
          /\ processedNodes' = {}
          /\ highlightedBulletins' = {}
          /\ bulletinTypeCounts' = ZeroCounts
          /\ pendingHighlights' = <<>>
          /\ \A e \in ElementSet : pendingOffscreenElements'[e] = <<>>
          /\ mutationTimestamps' = <<>>
          /\ pendingMutations' = 0
          /\ ~visibilityObserver'
          /\ observed' = {}
          /\ idleCallbacks' = <<>>]_vars

\* the detectMutationStorm calls made less than 500 ms before the last one,
\* that one included
BatchesInWindow == {k \in 1..Len(batchLog) : dateNow - batchLog[k] < 500}

\* C27: detectMutationStorm reports a storm exactly when more than 50
\* batches, the current one included, fall within the last 500 ms, and after
\* the call the window holds only timestamps less than 500 ms old
C27_StormDetection ==
    stormDetected # "none" =>
        /\ (stormDetected = "storm") <=> (Cardinality(BatchesInWindow) > 50)
        /\ \A k \in 1..Len(mutationTimestamps) :
              /\ dateNow - mutationTimestamps[k] < 500
              /\ dateNow - mutationTimestamps[k] >= 0
        /\ Len(mutationTimestamps) = Cardinality(BatchesInWindow)

\* a storm is reported although an earlier batch has left the window
C27_Witness ==
    /\ stormDetected = "storm"
    /\ Len(batchLog) > Len(mutationTimestamps)

\* C28: getAdaptiveDebounceMs returns one of 50, 150, 250, 300, 400 ms, 50
\* when nothing is pending and nothing is recent, and no longer a delay for
\* fewer pending records or fewer recent batches, the other held fixed
C28_DebounceEscalates ==
    debounceMs # NoDebounce =>
        LET count == pendingMutations
            recentActivity == Len(mutationTimestamps)
        IN /\ debounceMs \in {50, 150, 250, 300, 400}
           /\ (count = 0 /\ recentActivity = 0) => debounceMs = 50
           /\ \A c \in 0..count :
                 getAdaptiveDebounceMs(c, recentActivity) <= debounceMs
           /\ \A q \in 0..recentActivity :
                 getAdaptiveDebounceMs(count, q) <= debounceMs

\* C29: when a loadPatterns call completes, from the remote list or from
\* the fallback, the combined pattern is the alternation of exactly the
\* patterns now in the list
C29_CombinedPatternRebuilt ==
    [][(~patternsLoaded /\ patternsLoaded') =>
          combinedPattern' = buildCombinedPattern(patterns')]_vars

\* the hide timers that are set: the one whose id is held and the earlier
\* ones
PendingHides == hideTimers + (IF hideTooltipTimeout THEN 1 ELSE 0)

\* C30: the pointer leaving a span for anything but the tooltip sets one
\* hide timer; leaving straight onto the tooltip sets none; once the pointer
\* is on the tooltip no hide timer is left and the tooltip shows for as long
\* as the pointer stays, whatever spans were entered and left before
C30_HoverBridge ==
    [][/\ (pointer \in Spans /\ pointer' = "page") =>
              /\ hideTooltipTimeout'
              /\ PendingHides' = PendingHides + 1
       /\ (pointer \in Spans /\ pointer' = "entering") =>
              PendingHides' = PendingHides
       /\ pointer' = "panel" =>
              /\ PendingHides' = 0
              /\ tooltipDisplay' = "block"]_vars

\* C36: while the pointer stays on a marker the panel shows and that marker
\* is the tracked one, whatever hide timers the markers left before have
\* set, so that the marker's record is rendered when its fetch resolves
C36_HideTimerSparesNextMarker ==
    \A m \in Spans :
        (pointer = m /\ BulletinIdOf(m) # "") =>
            /\ tooltipDisplay = "block"
            /\ currentHighlightedElement = m

\* C31: a hover never shows a record from the tooltip's own copy that is
\* older than the expiry time of the bulletin cache: past one hour the
\* record comes from a new request
C31_TooltipHonoursExpiry == shownAge <= CACHE_EXPIRY_MS

\* the text nodes of the pages as they are loaded
LoadedTextNodes ==
    {<<k>> : k \in 1..(MAX_IMMEDIATE_OFFSCREEN + IMMEDIATE_OFFSCREEN_SLICE + 1)}

C40_OffscreenQueueHasNoDuplicates ==
    \A e \in ElementSet :
        \A j, k \in 1..Len(pendingOffscreenElements[e]) :
            j # k => pendingOffscreenElements[e][j] # pendingOffscreenElements[e][k]

--------------------------------------------------------------------------
(* Claims about the TooltipManager, checked under TooltipSpec *)

\* C13: when the fetch of a hover settles, the tooltip's content is replaced
\* by the fetched record only if the span that started the fetch is still
\* the tracked one; the result of a hover that another hover has superseded,
\* or that a hide has ended, leaves the content as it was; so a displayed
\* tooltip never holds the content of a span other than the tracked one
C13_OnlyTrackedHoverShown ==
    /\ [](tooltipDisplay = "block" => tooltipHtml.element = currentHighlightedElement)
    /\ [][Len(hovers') < Len(hovers) =>
            IF lastSettled'.element = currentHighlightedElement
            THEN tooltipHtml' = TooltipHTML(lastSettled'.element, lastSettled'.data)
            ELSE tooltipHtml' = tooltipHtml]_vars

\* the record of m1 arrives while m3 is hovered and is discarded: the
\* tooltip still shows the loading content of m3
C13_Witness ==
    /\ lastSettled.element = "m1"
    /\ lastSettled.outcome = "data"
    /\ ~lastSettled.shown
    /\ currentHighlightedElement = "m3"
    /\ tooltipDisplay = "block"
    /\ tooltipHtml = LoadingHTML("m3")

FailedOutcomes == {"nodata", "undefined", "throws"}

\* C14 as stated: fetchBulletinData never rejects, and when sendMessage
\* throws or the response has no data it resolves with the requested id, the
\* description that says the details are unavailable, and status 'Unknown'
C14_FallbackSaysUnavailable ==
    /\ lastSettled.settled # "rejected"
    /\ lastSettled.outcome \in FailedOutcomes =>
          /\ lastSettled.data.id = BulletinIdOf(lastSettled.element)
          /\ lastSettled.data.description = "Unable to fetch vulnerability details"
          /\ lastSettled.data.status = "Unknown"

\* C14, amended: fetchBulletinData never rejects, and when sendMessage throws
\* or the response has no data it resolves with the requested id and type,
\* status 'Unknown', and a description that says the details are unavailable
\* for type 'cve' and points to Vulners.com for every other type
C14_FallbackByType ==
    /\ lastSettled.settled # "rejected"
    /\ lastSettled.outcome \in FailedOutcomes =>
          /\ lastSettled.settled = "resolved"
          /\ lastSettled.data.id = BulletinIdOf(lastSettled.element)
          /\ lastSettled.data.type = BulletinTypeOf(lastSettled.element)
          /\ lastSettled.data.status = "Unknown"
          /\ lastSettled.data.description =
                IF BulletinTypeOf(lastSettled.element) = "cve"
                THEN "Unable to fetch vulnerability details"
                ELSE "Click to view details on Vulners.com"

\* sendMessage threw for the hover of the advisory span, and the call resolved
C14_Witness ==
    /\ lastSettled.element = "m3"
    /\ lastSettled.outcome = "throws"
    /\ lastSettled.settled = "resolved"
    /\ lastSettled.data.id = "RHSA-1"

\* the records that stand for a failed fetch: the record the background
\* answers when the provider gave none, and the tooltip's own minimal data
FailureRecords(id) ==
    {FallbackFrom(id, t) : t \in BulletinTypes} \cup {MinimalData(id, t) : t \in BulletinTypes}

\* C37: no record that stands for a failed fetch is kept, in the cache of the
\* background or in the cache of the tooltip, so that the next hover over the
\* identifier starts a new fetch
C37_FailuresNotCached ==
    /\ \A id \in CveIds :
          cveCache[id] # NoEntry => cveCache[id].data # NotAvailable(id)
    /\ \A id \in BulletinIds :
          cveDataCache[id] \notin FailureRecords(id)

--------------------------------------------------------------------------
(* Claims about the functions of utils.ts, checked under UtilSpec *)

\* some prefix of BULLETIN_TYPE_MAP starts the identifier, letter case aside
MatchesAPrefix(id) ==
    \E k \in 1..Len(BULLETIN_TYPE_MAP) :
        StartsWith(UpperCased(id), UpperCased(BULLETIN_TYPE_MAP[k][1]))

\* the identifier starts with EDB-ID or EDBID, letter case aside
HasExploitDbMarker(id) ==
    \/ StartsWith(UpperCased(id), <<"E", "D", "B", "-", "I", "D">>)
    \/ StartsWith(UpperCased(id), <<"E", "D", "B", "I", "D">>)

\* the identifiers the claim names, with their types
NamedIdentifiers ==
    { << <<"E", "D", "B", "-", "I", "D", ":", "1", "2", "3", "4", "5">>, "exploit" >>,
      << <<"E", "D", "B", "I", "D", ":", "1", "2", "3", "4", "5">>, "exploit" >>,
      << <<"R", "H", "S", "A", "-", "2", "0", "2", "3", ":", "1", "2", "3", "4">>, "advisory" >>,
      << <<"C", "V", "E", "-", "2", "0", "2", "4", "-", "1", "2", "3", "4">>, "cve" >> }

\* what C17 states of every identifier whatever its last clause says
DetectsAsStated(id, type) ==
    /\ type \in BulletinTypes
    /\ type = detectBulletinType(UpperCased(id))
    /\ type = detectBulletinType(LowerCased(id))
    /\ HasExploitDbMarker(id) => type = "exploit"
    /\ \A named \in NamedIdentifiers : id = named[1] => type = named[2]

Entities ==
    { <<"&", "a", "m", "p", ";">>, <<"&", "l", "t", ";">>, <<"&", "g", "t", ";">>,
      <<"&", "q", "u", "o", "t", ";">>, <<"&", "#", "3", "9", ";">> }

\* the character an entity stands for
EntityChar(entity) ==
    CASE entity = <<"&", "a", "m", "p", ";">> -> "&"
      [] entity = <<"&", "l", "t", ";">> -> "<"
      [] entity = <<"&", "g", "t", ";">> -> ">"
      [] entity = <<"&", "q", "u", "o", "t", ";">> -> "\""
      [] entity = <<"&", "#", "3", "9", ";">> -> "'"

RECURSIVE DecodeEntities(_)
\* the text an escaped string stands for: each entity read back, from the left
DecodeEntities(s) ==
    IF s = <<>> THEN <<>>
    ELSE IF \E e \in Entities : StartsWith(s, e)
         THEN LET e == CHOOSE x \in Entities : StartsWith(s, x) IN
              <<EntityChar(e)>> \o DecodeEntities(SubSeq(s, Len(e) + 1, Len(s)))
         ELSE <<Head(s)>> \o DecodeEntities(Tail(s))

\* C20: the output of escapeHtml holds none of < > " ' and no & that does not
\* start one of the five entities; reading the entities back gives the input,
\* so every special character was replaced by its own entity and every other
\* character kept; an input without special characters is returned unchanged
C20_EscapeHtml ==
    utilCall = "escapeHtml" =>
        /\ \A k \in 1..Len(utilOutput) :
              /\ utilOutput[k] \notin {"<", ">", "\"", "'"}
              /\ utilOutput[k] = "&" =>
                    \E e \in Entities : StartsWith(SubSeq(utilOutput, k, Len(utilOutput)), e)
        /\ DecodeEntities(utilOutput) = utilInput
        /\ Len(utilOutput) =
              Len(utilInput)
                + 4 * Cardinality({k \in 1..Len(utilInput) : utilInput[k] \in {"&", "'"}})
                + 3 * Cardinality({k \in 1..Len(utilInput) : utilInput[k] \in {"<", ">"}})
                + 5 * Cardinality({k \in 1..Len(utilInput) : utilInput[k] = "\""})
        /\ (\A k \in 1..Len(utilInput) : utilInput[k] \notin {"&", "<", ">", "\"", "'"})
              => utilOutput = utilInput

\* <&' was escaped to &lt;&amp;&#39;
C20_Witness ==
    /\ utilCall = "escapeHtml"
    /\ utilInput = <<"<", "&", "'">>
    /\ utilOutput = <<"&", "l", "t", ";", "&", "a", "m", "p", ";", "&", "#", "3", "9", ";">>

--------------------------------------------------------------------------
(* Claims about the site check, checked under HighlighterSpec *)

\* the hostname, letter case aside, is the provider's domain or ends with a
\* dot followed by it
IsProviderHost(h) ==
    \/ LowerCased(h) = VulnersCom
    \/ EndsWith(LowerCased(h), <<".">> \o VulnersCom)

\* the flag highlighting is asked to follow: the stored one until a
\* toggleHighlighting message arrives, then that of the last message
RequestedFlag ==
    IF lastRequest = NoRequest THEN storedEnabled # "false" ELSE lastRequest = "true"

\* C18: on a page of the provider's domain or of a subdomain of it, whatever
\* the letter case of the hostname, the stored flag and the toggle messages,
\* highlighting is off once init has run, no scan has written a highlight,
\* and no load, timer or observer that could is set up; on any other page
\* (notvulners.com, vulners.net among them) the site check is false, the
\* enabled flag is the requested one, and a scan has run when it is on
C18_NeverActiveOnProviderSite ==
    /\ IsProviderHost(locationHostname) =>
          /\ isVulnersSite
          /\ highlighterPc = "listening" => ~highlighterEnabled
          /\ lastHighlight = "none"
          /\ loadsPending = 0
          /\ ~periodicScan
          /\ ~observing
    /\ ~IsProviderHost(locationHostname) =>
          /\ ~isVulnersSite
          /\ highlighterPc = "listening" =>
                /\ highlighterEnabled = RequestedFlag
                /\ (highlighterEnabled /\ loadsPending = 0) => lastHighlight # "none"
    /\ locationHostname \in { <<"n", "o", "t">> \o VulnersCom,
                              <<"v", "u", "l", "n", "e", "r", "s", ".", "n", "e", "t">> }
          => ~IsProviderHost(locationHostname)

\* on API.VULNERS.COM with highlighting stored as enabled, two messages have
\* asked to turn it on and it is off
C18_Witness ==
    /\ locationHostname = UpperCased(<<"a", "p", "i", ".">> \o VulnersCom)
    /\ storedEnabled = "true"
    /\ lastRequest = "true"
    /\ highlighterToggles = 2
    /\ ~highlighterEnabled
    /\ lastHighlight = "none"

--------------------------------------------------------------------------
(* Claims about the DOMScanner, checked under ScanSpec *)

\* the number of entries of a sequence that satisfy Holds
CountIn(q, Holds(_)) == Cardinality({k \in 1..Len(q) : Holds(q[k])})

\* no two of the matches share a character
Disjoint(matches) ==
    \A j, k \in 1..Len(matches) :
        j < k => matches[j].end <= matches[k].index \/ matches[k].end <= matches[j].index

\* C4: a bulletin id is counted once.  Each per-type counter equals the number
\* of distinct (upper-cased) ids of that type in highlightedBulletins, however
\* often an id occurs; every match highlightCVEsInNode keeps gets a marker of
\* its own, so N kept occurrences of an id give N markers and a count of 1;
\* and in a node whose matches do not overlap every occurrence is kept.
C4_CountedOnce ==
    /\ \A t \in BulletinTypes :
          bulletinTypeCounts[t] =
              Cardinality({id \in highlightedBulletins : detectBulletinType(id) = t})
    /\ \A n \in DOMAIN visits :
          \A k \in 1..Len(visits[n].found) :
              LET id == visits[n].found[k]
                  r == visits[n].retained
                  kept == {r[j] : j \in 1..Len(r)}
                  made == CountIn(visits[n].markers, LAMBDA c : c.text = id)
              IN /\ k \in kept => id \in highlightedBulletins
                 /\ made = Cardinality({j \in kept : visits[n].found[j] = id})
                 /\ Disjoint(visits[n].candidates) =>
                        made = CountIn(visits[n].found, LAMBDA f : f = id)

\* one id marked twice in one text node and once more in another, counted once
C4_Witness ==
    \E n, m \in DOMAIN visits : \E id \in highlightedBulletins :
        /\ n # m
        /\ CountIn(visits[n].markers, LAMBDA c : c.text = id) = 2
        /\ CountIn(visits[m].markers, LAMBDA c : c.text = id) = 1
        /\ bulletinTypeCounts[detectBulletinType(id)] = 1
        /\ Cardinality(highlightedBulletins) = 1

\* C35: the cve, advisory and exploit counters add up to the number of
\* identifiers in highlightedBulletins, whatever highlightCVEsInNode, the
\* flush and removeAllHighlights have done
C35_CountersSumToSetSize ==
    bulletinTypeCounts["cve"] + bulletinTypeCounts["advisory"]
        + bulletinTypeCounts["exploit"] = Cardinality(highlightedBulletins)

\* identifiers of two types are counted and their markers are in the page
C35_Witness ==
    /\ Cardinality(highlightedBulletins) >= 2
    /\ Cardinality({t \in BulletinTypes : bulletinTypeCounts[t] > 0}) >= 2
    /\ Markers(dom) # {}
    /\ pendingHighlights = <<>>

\* C5 (as stated): while highlighting is disabled the document holds no
\* marker and every per-type counter is zero, whatever callbacks were pending
\* when removeAllHighlights ran.
C5_DisabledStaysClean ==
    ~enabled => /\ Markers(dom) = {}
                /\ bulletinTypeCounts = ZeroCounts

\* C6: while highlighting stays enabled a text node is worked on at most once.
\* Every node highlightCVEsInNode has worked on since processedNodes was last
\* reset is in processedNodes, was worked on once and had at most one
\* replacement queued, also when it was passed to highlightCVEsInNode again.
C6_ProcessedOnce ==
    \A n \in DOMAIN visits :
        /\ n \in processedNodes
        /\ visits[n].count = 1
        /\ visits[n].queued <= 1

\* a node with a queued replacement was passed to highlightCVEsInNode again
C6_Witness ==
    \E n \in DOMAIN visits :
        /\ visits[n].again
        /\ visits[n].count = 1
        /\ \E k \in 1..Len(pendingHighlights) : pendingHighlights[k].oldNode = n

\* C7: the matches of a node are handled by increasing start offset, and a
\* match is kept exactly when it does not start before the end of a match
\* kept earlier; so the kept matches, one marker each, neither overlap nor
\* nest.  Matches at [0,10) and [5,15) leave one marker, for [0,10).
C7_NoOverlap ==
    \A n \in DOMAIN visits :
        LET c == visits[n].candidates
            r == visits[n].retained
            kept == {r[k] : k \in 1..Len(r)}
        IN /\ \A k \in 1..(Len(c) - 1) : c[k].index <= c[k + 1].index
           /\ \A k \in 1..(Len(r) - 1) : r[k] < r[k + 1]
           /\ \A k \in 1..Len(c) :
                 k \in kept <=> \A j \in kept : j < k => c[j].end <= c[k].index
           /\ \A j, k \in kept : j < k => c[j].end <= c[k].index
           /\ Len(visits[n].markers) = Len(r)
           /\ \A k \in 1..Len(r) : visits[n].markers[k].text = visits[n].found[r[k]]

\* a node with matches at [0,10) and [5,15) got one marker, for the first
C7_Witness ==
    \E n \in DOMAIN visits :
        /\ visits[n].candidates = <<[index |-> 0, end |-> 10], [index |-> 5, end |-> 15]>>
        /\ visits[n].retained = <<1>>
        /\ Len(visits[n].markers) = 1
        /\ visits[n].markers[1].text = <<"D", "S", "A", "-", "1", "2", "3", "4", "-", "5">>

==========================================================================
